---- MODULE Spec2Model ----
(***************************************************************************)
(* Verification model of the encfs core: the block I/O engine              *)
(* (BlockFileIO), the MAC framing layer (MACFileIO), the scratch memory    *)
(* pool, the filename codecs, the open-file registry (EncFS_Context) and   *)
(* the recursive rename planner (RenameOp).                                *)
(*                                                                         *)
(* Every component has its own specification over the shared variables;    *)
(* a specification leaves the variables of the other components at their  *)
(* idle value.                                                             *)
(***************************************************************************)
EXTENDS Integers, Sequences, FiniteSets, TLC

VARIABLES
  cfg,      \* block engine: mount options of the layer under test
  io,       \* block engine: backing file, one-block cache, call log
  last,     \* block engine: the last request and its outcome
  nops,     \* block engine: number of requests served so far
  grown,    \* block engine: snapshot taken by the last growing truncate
  reg,      \* registry: path map, handle map, handle counter, file nodes
  ren,      \* rename: the RenameOp in progress and the backing names
  nm,       \* filename codecs: the last name encoded and decoded
  thr       \* threads: each thread's position, its fsuid and fsgid

ioVars == <<cfg, io, last, nops, grown>>

vars == <<cfg, io, last, nops, grown, reg, ren, nm, thr>>

----------------------------------------------------------------------------
(* Bounds of the model.                                                    *)

BlockSize == 2      \* fs block size B of the plain layer (the code wants B > 1)
MaxSize == 5        \* largest logical file size explored
MaxLen == 4         \* longest read/write request
MaxOps == 3         \* requests served per run
MaxFault == 1       \* an injected fault hits one of the first MaxFault base calls

(* errno values returned (negated) by the layers.                          *)
EIO == 5
EBADMSG == 74

----------------------------------------------------------------------------
(* Generic helpers.                                                        *)

Range(f) == {f[x] : x \in DOMAIN f}

\* the empty map (std::map after construction)
EmptyMap == [x \in {} |-> 0]

\* m with key k set to v / with key k erased
MapPut(m, k, v) == [x \in DOMAIN m \cup {k} |-> IF x = k THEN v ELSE m[x]]
MapErase(m, k) == [x \in DOMAIN m \ {k} |-> m[x]]

\* EncFS_Context::EncFS_Context: empty maps, currentFuseFh = 1
NewContext ==
  [openFiles |-> EmptyMap, fuseFhMap |-> EmptyMap, currentFuseFh |-> 1,
   nodes |-> <<>>]

\* no RenameOp in progress, no name handled yet
NoRename == [phase |-> "none"]
NoName == [codec |-> "none"]

\* no thread is inside a call
NoThreads == <<>>

\* the idle values a specification gives the components it does not run
RegIdle == reg = NewContext
RenIdle == ren = NoRename
NmIdle == nm = NoName
ThrIdle == thr = NoThreads

Min(a, b) == IF b < a THEN b ELSE a

Zeros(n) == [i \in 1..n |-> 0]

Take(s, n) == SubSeq(s, 1, Min(n, Len(s)))

\* memcpy(buf + pos, data, Len(data)) on a buffer modelled as a sequence
Overlay(buf, pos, data) ==
  [i \in 1..Len(buf) |->
     IF i > pos /\ i <= pos + Len(data) THEN data[i - pos] ELSE buf[i]]

\* pread(): the bytes [off, off+len) that exist in the file
FileSlice(f, off, len) ==
  IF off >= Len(f) THEN <<>> ELSE SubSeq(f, off + 1, Min(off + len, Len(f)))

\* pwrite(): store data at off, a gap past the old end reads as zero
FileStore(f, off, data) ==
  LET n == IF off + Len(data) > Len(f) THEN off + Len(data) ELSE Len(f)
  IN [i \in 1..n |->
        IF i > off /\ i <= off + Len(data) THEN data[i - off]
        ELSE IF i <= Len(f) THEN f[i] ELSE 0]

\* ftruncate(): cut, or extend with zeros
FileResize(f, n) == [i \in 1..n |-> IF i <= Len(f) THEN f[i] ELSE 0]

----------------------------------------------------------------------------
(* Scratch memory pool (MemoryPool.cpp).                                   *)

NullPtr == "nullptr"

\* MemBlock(): a block that has not been allocated yet
NoBlock == [data |-> NullPtr, size |-> 0, bytes |-> <<>>]

\* allocBlock(): BUF_MEM_new() creates an empty BUF_MEM (data pointer null,
\* capacity 0) and nothing grows it, so BLOCKDATA(block) is the null pointer
allocBlock(size) == [data |-> NullPtr, size |-> size, bytes |-> <<>>]

\* index of the first freelist entry large enough, 0 if none
RECURSIVE FirstFit(_, _, _)
FirstFit(pool, size, i) ==
  IF i > Len(pool) THEN 0
  ELSE IF pool[i].size >= size THEN i
  ELSE FirstFit(pool, size, i + 1)

\* MemoryPool::allocate(size): unlink a fitting block, or allocBlock(size)
PoolAllocate(s, size) ==
  LET i == FirstFit(s.pool, size, 1)
  IN IF i = 0
     THEN [s |-> s, mb |-> allocBlock(size)]
     ELSE [s |-> [s EXCEPT !.pool = SubSeq(s.pool, 1, i - 1) \o
                                     SubSeq(s.pool, i + 1, Len(s.pool))],
           mb |-> s.pool[i]]

\* an access of n bytes through the block's data pointer faults
Bad(mb, n) == mb.data = NullPtr /\ n > 0

Crash(s) == [s EXCEPT !.crash = TRUE]

\* MemoryPool::release(mb): memset(BLOCKDATA(block), 0, block->size), push
PoolRelease(s, mb) ==
  IF Bad(mb, mb.size) THEN Crash(s)
  ELSE [s EXCEPT !.pool = <<[mb EXCEPT !.bytes = Zeros(mb.size)]>> \o s.pool]

\* "if (mb.data != nullptr) MemoryPool::release(mb)"
ReleaseIfSet(s, mb) == IF mb.data # NullPtr THEN PoolRelease(s, mb) ELSE s

----------------------------------------------------------------------------
(* Lower layer of the plain engine: readOneBlock / writeOneBlock /         *)
(* base->truncate going straight to the backing file, with injected        *)
(* faults (io.fr, io.fw: the n-th next call fails with -EIO, 0 = never;    *)
(* io.fail: the place in the call log of the call that failed, 0 = none).   *)

Logged(s, e) == [s EXCEPT !.log = Append(s.log, e)]

\* the engine's block size B
B == cfg.bs

\* header bytes per framed block (MAC layer)
HeaderSize == cfg.macBytes + cfg.randBytes

\* roundUpDivide
roundUpDivide(num, den) == (num + den - 1) \div den

locWithHeader(offset, blockSize, headerSize) ==
  offset + roundUpDivide(offset, blockSize - headerSize) * headerSize

locWithoutHeader(offset, blockSize, headerSize) ==
  offset - roundUpDivide(offset, blockSize) * headerSize

\* base->read(req) of the layer below; dstNull: req.data is a null pointer
BaseRead(s, off, len, dstNull) ==
  IF s.fr = 1
  THEN [s |-> [s EXCEPT !.fr = 0, !.fail = Len(s.log)], res |-> -EIO,
        data |-> <<>>]
  ELSE LET s1 == IF s.fr > 1 THEN [s EXCEPT !.fr = s.fr - 1] ELSE s
           d == FileSlice(s.file, off, len)
       IN IF dstNull /\ Len(d) > 0
          THEN [s |-> Crash(s1), res |-> 0, data |-> <<>>]
          ELSE [s |-> s1, res |-> Len(d), data |-> d]

\* base->write(req) of the layer below
BaseWrite(s, off, data) ==
  IF s.fw = 1
  THEN [s |-> [s EXCEPT !.fw = 0, !.fail = Len(s.log)], res |-> -EIO]
  ELSE LET s1 == IF s.fw > 1 THEN [s EXCEPT !.fw = s.fw - 1] ELSE s
       IN [s |-> [s1 EXCEPT !.file = FileStore(s.file, off, data)],
           res |-> Len(data)]

\* base->truncate(size) of the layer below
BaseTruncate(s, size) ==
  [s |-> Logged([s EXCEPT !.file = FileResize(s.file, size)], <<"t", size>>),
   res |-> 0]

\* base->getSize()
BaseSize(s) == Len(s.file)

----------------------------------------------------------------------------
(* MAC framing layer (MACFileIO.cpp).                                      *)

RECURSIVE BitAnd(_, _)
BitAnd(a, b) ==
  IF a = 0 \/ b = 0 THEN 0
  ELSE (a % 2) * (b % 2) + 2 * BitAnd(a \div 2, b \div 2)

RECURSIVE SumWeighted(_, _)
SumWeighted(d, i) ==
  IF i > Len(d) THEN 0 ELSE (i + 2) * d[i] + SumWeighted(d, i + 1)

\* cipher->MAC_64(data, len, key): a keyed 64-bit checksum of the bytes,
\* given as its 8 bytes, lowest first (the order "mac & 0xff; mac >>= 8"
\* consumes them).  The HMAC itself is the cipher library's; this stand-in
\* is deterministic and depends on every byte and on the length.
MAC_64(d) ==
  [i \in 1..8 |-> (SumWeighted(d, 1) * (2 * i + 1) + 29 * i + 7 * Len(d)) % 256]

\* readOneBlock after base->read: r is the outcome of the read into the
\* frame buffer mb; MAC comparison, copy-out, release
MACReadVerify(mb, r) ==
  LET h == HeaderSize
      skipBlock == IF cfg.allowHoles
                   THEN \A i \in 1..Len(r.data) : r.data[i] = 0
                   ELSE ~(cfg.macBytes > 0)
      \* fail |= (test & stored), for the first macBytes bytes
      fail == \E i \in 1..cfg.macBytes :
                BitAnd(MAC_64(SubSeq(r.data, cfg.macBytes + 1, Len(r.data)))[i],
                       r.data[i]) # 0
  IN IF r.s.crash THEN r
     ELSE IF r.res > h
     THEN IF (~skipBlock) /\ fail /\ (~cfg.forceDecode)
          THEN [s |-> PoolRelease(r.s, mb), res |-> -EBADMSG, data |-> <<>>]
          ELSE [s |-> PoolRelease(r.s, mb), res |-> r.res - h,
                data |-> SubSeq(r.data, h + 1, Len(r.data))]
     ELSE [s |-> PoolRelease(r.s, mb),
           res |-> IF r.res > 0 THEN 0 ELSE r.res, data |-> <<>>]

\* readOneBlock once the frame buffer a.mb is allocated: base->read(tmp)
MACReadFrame(a, off, len) ==
  MACReadVerify(a.mb,
    BaseRead(a.s, locWithHeader(off, B + HeaderSize, HeaderSize),
             HeaderSize + len, a.mb.data = NullPtr))

\* MACFileIO::readOneBlock(req): req.data is the engine's cache buffer
MACReadOneBlock(s, off, len) ==
  MACReadFrame(PoolAllocate(s, B + HeaderSize), off, len)

\* the framed block writeOneBlock builds: the first macBytes bytes of the
\* MAC (lowest byte first), randBytes random bytes, the payload
MACFrame(data, rndv) ==
  LET body == [i \in 1..cfg.randBytes |-> rndv] \o data
  IN [i \in 1..cfg.macBytes |-> MAC_64(body)[i]] \o body

\* writeOneBlock after base->write: release, return the base's result
MACWriteStore(mb, w) == [s |-> PoolRelease(w.s, mb), res |-> w.res]

\* writeOneBlock once the frame buffer a.mb is allocated
MACWriteFrame(a, off, data) ==
  IF Bad(a.mb, HeaderSize) \/ Bad(a.mb, Len(data))
  THEN [s |-> Crash(a.s), res |-> 0]
  ELSE IF cfg.randBytes > 0 /\ a.s.randFail
  THEN [s |-> a.s, res |-> -EBADMSG]      \* returns without release
  ELSE MACWriteStore(a.mb,
         BaseWrite(a.s, locWithHeader(off, B + HeaderSize, HeaderSize),
                   MACFrame(data, a.s.rnd)))

\* MACFileIO::writeOneBlock(req)
MACWriteOneBlock(s, off, data) ==
  MACWriteFrame(PoolAllocate(s, B + HeaderSize), off, data)

----------------------------------------------------------------------------
(* Cipher layer (CipherFileIO.cpp) over the backing file.  The layer's     *)
(* state lives in io: fileIV, externalIV, the values cipher->randomize     *)
(* will deliver (draws), ivInit = initHeader has returned success.         *)

HEADER_SIZE == 8
EPERM == 1
EISDIR == 21
EACCES == 13

RECURSIVE BitXor(_, _)
BitXor(a, b) ==
  IF a = 0 THEN b
  ELSE IF b = 0 THEN a
  ELSE ((a + b) % 2) + 2 * BitXor(a \div 2, b \div 2)

\* cipher->streamEncode / streamDecode: a keyed length-preserving
\* transformation and its inverse
streamEncode(d, iv) == [i \in 1..Len(d) |-> (d[i] + iv + i) % 256]
streamDecode(d, iv) == [i \in 1..Len(d) |-> (d[i] + 256 - ((iv + i) % 256)) % 256]

\* cipher->blockEncode / blockDecode on whole cipher blocks
blockEncode(d, iv) == [i \in 1..Len(d) |-> (d[i] + 3 * iv + 2 * i + 1) % 256]
blockDecode(d, iv) ==
  [i \in 1..Len(d) |-> (d[i] + 256 - ((3 * iv + 2 * i + 1) % 256)) % 256]

\* byte n (0 = lowest) of v
RECURSIVE ByteAt(_, _)
ByteAt(v, n) == IF n = 0 THEN v % 256 ELSE ByteAt(v \div 256, n - 1)

\* the 8 header bytes of an IV, highest byte first
ToBytesBE(v) == [i \in 1..HEADER_SIZE |-> ByteAt(v, HEADER_SIZE - i)]

\* fileIV = (fileIV << 8) | buf[i] over the 8 bytes; the model keeps the low
\* three bytes exactly and one more bit that says a higher byte is set
FromBytesBE(b) ==
  (IF \E i \in 1..(HEADER_SIZE - 3) : b[i] # 0 THEN 16777216 ELSE 0)
    + 65536 * b[HEADER_SIZE - 2] + 256 * b[HEADER_SIZE - 1] + b[HEADER_SIZE]

\* CipherFileIO::getSize()
CipherGetSize(s) ==
  IF cfg.haveHeader /\ BaseSize(s) > 0
  THEN IF ~cfg.reverse THEN BaseSize(s) - HEADER_SIZE
       ELSE BaseSize(s) + HEADER_SIZE
  ELSE BaseSize(s)

\* initHeader, new header: randomize until the IV is not zero; no value left
\* to draw means randomize failed
RECURSIVE DrawIV(_)
DrawIV(s) ==
  IF s.draws = <<>> THEN [s |-> s, res |-> -EBADMSG]
  ELSE IF Head(s.draws) = 0
  THEN DrawIV([s EXCEPT !.draws = Tail(@), !.fileIV = 0])
  ELSE [s |-> [s EXCEPT !.draws = Tail(@), !.fileIV = Head(s.draws)], res |-> 0]

\* initHeader, new header, after base->write(req) returned w
HeaderWritten(w) ==
  IF w.res < 0 THEN [s |-> w.s, res |-> w.res]
  ELSE [s |-> [w.s EXCEPT !.ivInit = TRUE], res |-> 0]

\* initHeader, new header, after the randomize loop returned d
InitHeaderStore(d) ==
  IF d.res < 0 THEN d
  ELSE HeaderWritten(BaseWrite(d.s, 0,
                               streamEncode(ToBytesBE(d.s.fileIV), d.s.externalIV)))

\* initHeader, existing header decoded to v; rAssert(fileIV != 0) throws and
\* the request does not return
HeaderDecoded(s, v) ==
  IF v = 0 THEN [s |-> Crash([s EXCEPT !.fileIV = 0]), res |-> 0]
  ELSE [s |-> [s EXCEPT !.fileIV = v, !.ivInit = TRUE], res |-> 0]

\* initHeader, existing header, after base->read(req) returned r
InitHeaderRead(r) ==
  IF r.res < 0 THEN [s |-> r.s, res |-> r.res]
  ELSE HeaderDecoded(r.s, FromBytesBE(streamDecode(r.data, r.s.externalIV)))

\* CipherFileIO::initHeader()
initHeader(s) ==
  IF BaseSize(s) >= HEADER_SIZE
  THEN InitHeaderRead(BaseRead(s, 0, HEADER_SIZE, FALSE))
  ELSE InitHeaderStore(DrawIV(s))

\* CipherFileIO::writeHeader(): the loop that fills buf shifts fileIV itself,
\* which is zero when the loop ends
writeHeader(s) ==
  BaseWrite([s EXCEPT !.fileIV = 0], 0,
            streamEncode(ToBytesBE(s.fileIV), s.externalIV))

\* setIV without "externalIV = oldIV" on the failure path
SetIVNotRestored(w, iv, oldIV) ==
  IF w.res < 0 THEN [s |-> w.s, res |-> FALSE]
  ELSE [s |-> w.s, res |-> TRUE]

\* setIV after writeHeader returned w
SetIVWritten(w, iv, oldIV) ==
  IF w.res < 0 THEN [s |-> [w.s EXCEPT !.externalIV = oldIV], res |-> FALSE]
  ELSE [s |-> w.s, res |-> TRUE]

\* setIV after initHeader (if it was needed) returned h
SetIVHeader(h, iv) ==
  IF h.s.crash THEN [s |-> h.s, res |-> FALSE]
  ELSE IF h.res < 0 THEN [s |-> h.s, res |-> FALSE]
  ELSE SetIVWritten(writeHeader([h.s EXCEPT !.externalIV = iv]), iv,
                    h.s.externalIV)

\* CipherFileIO::setIV(iv); openRes is what base->open(lastFlags | O_RDWR)
\* returns; base->setIV is FileIO::setIV, which returns true
CipherSetIV(s, iv, openRes) ==
  IF s.externalIV = 0 THEN [s |-> [s EXCEPT !.externalIV = iv], res |-> TRUE]
  ELSE IF cfg.haveHeader
  THEN IF openRes < 0
       THEN IF openRes = -EISDIR
            THEN [s |-> [s EXCEPT !.externalIV = iv], res |-> TRUE]
            ELSE [s |-> s, res |-> FALSE]
       ELSE SetIVHeader(IF s.fileIV = 0 THEN initHeader(s)
                        ELSE [s |-> s, res |-> 0], iv)
  ELSE [s |-> s, res |-> TRUE]

\* a block's bytes are all zero
AllZero(d) == \A i \in 1..Len(d) : d[i] = 0

\* CipherFileIO::blockRead(buf, size, iv): [s, ok, data]
blockRead(s, d, iv) ==
  IF cfg.reverse THEN [s |-> s, ok |-> TRUE, data |-> blockEncode(d, iv)]
  ELSE IF cfg.allowHoles /\ AllZero(d) THEN [s |-> s, ok |-> TRUE, data |-> d]
  ELSE [s |-> Logged(s, <<"decode", Len(d)>>), ok |-> TRUE,
        data |-> blockDecode(d, iv)]

\* CipherFileIO::streamRead(buf, size, iv): in forward mode the function ends
\* without a return statement; nothing is decoded and the caller reads a
\* value that was never set (s.ub)
streamRead(s, d, iv) ==
  IF cfg.reverse THEN [s |-> s, ok |-> TRUE, data |-> streamEncode(d, iv)]
  ELSE [s |-> s, ok |-> s.ub, data |-> d]

\* readOneBlock after blockRead or streamRead returned c
CipherReadDecoded(c, readSize) ==
  IF ~c.ok THEN [s |-> c.s, res |-> -EBADMSG, data |-> c.data]
  ELSE [s |-> c.s, res |-> readSize, data |-> c.data]

\* readOneBlock after initHeader (if it was needed) returned h
CipherReadHeader(h, d, blockNum) ==
  IF h.s.crash THEN [s |-> h.s, res |-> 0, data |-> <<>>]
  ELSE IF h.res < 0 THEN [s |-> h.s, res |-> h.res, data |-> d]
  ELSE CipherReadDecoded(
         IF Len(d) # B THEN streamRead(h.s, d, BitXor(blockNum, h.s.fileIV))
         ELSE blockRead(h.s, d, BitXor(blockNum, h.s.fileIV)),
         Len(d))

\* readOneBlock after base->read(tmpReq) returned r
CipherReadBase(r, blockNum) ==
  IF r.s.crash \/ r.res <= 0 THEN r
  ELSE CipherReadHeader(IF cfg.haveHeader /\ r.s.fileIV = 0 THEN initHeader(r.s)
                        ELSE [s |-> r.s, res |-> 0],
                        r.data, blockNum)

\* CipherFileIO::readOneBlock(req)
CipherReadOneBlock(s, off, len) ==
  CipherReadBase(BaseRead(s, IF cfg.haveHeader /\ ~cfg.reverse
                             THEN off + HEADER_SIZE ELSE off,
                          len, FALSE),
                 off \div B)

\* blockWrite / streamWrite: encode in forward mode, decode in reverse mode
CipherEncode(d, iv) ==
  IF Len(d) # B
  THEN IF ~cfg.reverse THEN streamEncode(d, iv) ELSE streamDecode(d, iv)
  ELSE IF ~cfg.reverse THEN blockEncode(d, iv) ELSE blockDecode(d, iv)

\* writeOneBlock without "tmpReq.offset += HEADER_SIZE"
CipherWriteUnshifted(h, off, data) ==
  IF h.s.crash THEN [s |-> h.s, res |-> 0]
  ELSE IF h.res < 0 THEN [s |-> h.s, res |-> h.res]
  ELSE BaseWrite(Logged(Logged(h.s, <<"encode", Len(data)>>),
                        <<"bw", off, Len(data)>>),
                 off, CipherEncode(data, BitXor(off \div B, h.s.fileIV)))

\* writeOneBlock after initHeader (if it was needed) returned h
CipherWriteHeader(h, off, data) ==
  IF h.s.crash THEN [s |-> h.s, res |-> 0]
  ELSE IF h.res < 0 THEN [s |-> h.s, res |-> h.res]
  ELSE BaseWrite(Logged(Logged(h.s, <<"encode", Len(data)>>),
                        <<"bw", IF cfg.haveHeader THEN off + HEADER_SIZE ELSE off,
                          Len(data)>>),
                 IF cfg.haveHeader THEN off + HEADER_SIZE ELSE off,
                 CipherEncode(data, BitXor(off \div B, h.s.fileIV)))

\* CipherFileIO::writeOneBlock(req)
CipherWriteOneBlock(s, off, data) ==
  IF cfg.haveHeader /\ cfg.reverse THEN [s |-> s, res |-> -EPERM]
  ELSE CipherWriteHeader(IF cfg.haveHeader /\ s.fileIV = 0 THEN initHeader(s)
                         ELSE [s |-> s, res |-> 0],
                         off, data)

\* FileIO::getSize() of the layer under test
GetSize(s) ==
  IF cfg.layer = "cipher" THEN CipherGetSize(s)
  ELSE IF cfg.layer = "mac" /\ BaseSize(s) > 0
  THEN locWithoutHeader(BaseSize(s), B + HeaderSize, HeaderSize)
  ELSE BaseSize(s)

\* the virtual readOneBlock(req) with req.dataLen = B, req.data = cache
readOneBlock(s, off) ==
  IF cfg.layer = "cipher"
  THEN CipherReadOneBlock(Logged(s, <<"r", off, B>>), off, B)
  ELSE IF cfg.layer = "mac" THEN MACReadOneBlock(Logged(s, <<"r", off, B>>), off, B)
  ELSE BaseRead(Logged(s, <<"r", off, B>>), off, B, FALSE)

\* the virtual writeOneBlock(req)
writeOneBlock(s, off, data) ==
  IF cfg.layer = "cipher"
  THEN CipherWriteOneBlock(Logged(s, <<"w", off, Len(data)>>), off, data)
  ELSE IF cfg.layer = "mac"
  THEN MACWriteOneBlock(Logged(s, <<"w", off, Len(data)>>), off, data)
  ELSE BaseWrite(Logged(s, <<"w", off, Len(data)>>), off, data)

----------------------------------------------------------------------------
(* Block I/O engine (BlockFileIO.cpp).  An operation takes the engine      *)
(* state s = io and returns [s, res] (and data for reads).  Once s.crash   *)
(* is set the process is gone and nothing after it matters.                *)

\* clearCache(): zero the buffer, dataLen = 0 (only the valid bytes of the
\* cache buffer are kept in cdata)
clearCache(s) == [s EXCEPT !.clen = 0, !.cdata = <<>>]

Dead(s) == [s |-> Crash(s), res |-> 0, data |-> <<>>]

\* memcpy(req.data, _cache.data, len); return len
CacheCopy(s, bytes, dstNull) ==
  IF dstNull /\ Len(bytes) > 0 THEN Dead(s)
  ELSE [s |-> s, res |-> Len(bytes), data |-> bytes]

\* cacheReadOneBlock after readOneBlock(tmp) returned r
CacheFill(r, off, len, dstNull) ==
  IF r.s.crash THEN Dead(r.s)
  ELSE IF r.res > 0
  THEN CacheCopy([r.s EXCEPT !.coff = off, !.clen = r.res, !.cdata = r.data],
                 Take(r.data, Min(r.res, len)), dstNull)
  ELSE [s |-> r.s, res |-> r.res, data |-> <<>>]

\* BlockFileIO::cacheReadOneBlock(req); dstNull: req.data is a null pointer
cacheReadOneBlock(s, off, len, dstNull) ==
  IF (~cfg.noCache) /\ off = s.coff /\ s.clen # 0
  THEN CacheCopy(s, Take(s.cdata, Min(len, s.clen)), dstNull)
  ELSE CacheFill(readOneBlock(IF s.clen > 0 THEN clearCache(s) ELSE s, off),
                 off, len, dstNull)

\* cacheWriteOneBlock after writeOneBlock(tmp) returned w
CacheStore(w, off, data) ==
  IF w.s.crash THEN [s |-> w.s, res |-> 0]
  ELSE IF w.res < 0 THEN [s |-> clearCache(w.s), res |-> w.res]
  ELSE [s |-> [w.s EXCEPT !.coff = off, !.clen = Len(data), !.cdata = data],
        res |-> w.res]

\* cacheWriteOneBlock handing the block on one byte further
cacheWriteShifted(s, off, data, srcNull) ==
  IF srcNull /\ Len(data) > 0 THEN [s |-> Crash(s), res |-> 0]
  ELSE CacheStore(writeOneBlock(s, off + 1, data), off, data)

\* BlockFileIO::cacheWriteOneBlock(req); srcNull: req.data is a null pointer
cacheWriteOneBlock(s, off, data, srcNull) ==
  IF srcNull /\ Len(data) > 0 THEN [s |-> Crash(s), res |-> 0]
  ELSE CacheStore(writeOneBlock(s, off, data), off, data)

\* tail of BlockFileIO::read: release the scratch block, return
ReadDone(s, res, out, mb) ==
  IF s.crash THEN Dead(s)
  ELSE [s |-> ReleaseIfSet(s, mb), res |-> res, data |-> out]

RECURSIVE ReadLoop(_, _, _, _, _, _, _)

\* one round of the loop after cacheReadOneBlock(blockReq) returned r
ReadStep(r, mb, blockNum, partialOffset, size, out, result) ==
  LET cpySize == Min(r.res - partialOffset, size)
      chunk == SubSeq(r.data, partialOffset + 1, partialOffset + cpySize)
  IN IF r.s.crash THEN Dead(r.s)
     ELSE IF r.res < 0 THEN ReadDone(r.s, r.res, out, mb)
     ELSE IF r.res <= partialOffset THEN ReadDone(r.s, result, out, mb)
     ELSE IF r.res < B
          THEN ReadDone(r.s, result + cpySize, out \o chunk, mb)
          ELSE ReadLoop(r.s, blockNum + 1, 0, size - cpySize,
                        out \o chunk, result + cpySize, mb)

\* a round that goes through the scratch block a.mb
ReadScratch(a, blockNum, partialOffset, size, out, result) ==
  ReadStep(cacheReadOneBlock(a.s, blockNum * B, B, a.mb.data = NullPtr),
           a.mb, blockNum, partialOffset, size, out, result)

\* the while loop of BlockFileIO::read
ReadLoop(s, blockNum, partialOffset, size, out, result, mb) ==
  IF size = 0 THEN ReadDone(s, result, out, mb)
  ELSE IF partialOffset = 0 /\ size >= B
  THEN ReadStep(cacheReadOneBlock(s, blockNum * B, B, FALSE),
                mb, blockNum, partialOffset, size, out, result)
  ELSE ReadScratch(IF mb.data = NullPtr THEN PoolAllocate(s, B)
                   ELSE [s |-> s, mb |-> mb],
                   blockNum, partialOffset, size, out, result)

\* BlockFileIO::read(req)
read(s, off, len) ==
  IF off % B = 0 /\ len <= B
  THEN cacheReadOneBlock(s, off, len, FALSE)
  ELSE ReadLoop(s, off \div B, off % B, len, <<>>, 0, NoBlock)

\* tail of BlockFileIO::padFile: release the scratch block, return
PadDone(st, mb) ==
  IF st.s.crash THEN [s |-> st.s, res |-> 0]
  ELSE [s |-> ReleaseIfSet(st.s, mb), res |-> IF st.res < 0 THEN st.res ELSE 0]

\* "if ((res = cacheReadOneBlock(req)) >= 0) { req.dataLen = outLen;
\*  res = cacheWriteOneBlock(req); }" on the zeroed scratch block mb
PadRewrite(r, mb, off, outLen) ==
  IF r.s.crash THEN [s |-> r.s, res |-> 0]
  ELSE IF r.res >= 0
  THEN cacheWriteOneBlock(r.s, off, Take(Overlay(Zeros(B), 0, r.data), outLen),
                          mb.data = NullPtr)
  ELSE [s |-> r.s, res |-> r.res]

\* padFile inside one block (forceWrite): memset, read, write outSize bytes
PadSameBlock(a, oldSize, newSize) ==
  IF newSize % B # 0
  THEN IF Bad(a.mb, newSize % B) THEN [s |-> Crash(a.s), res |-> 0]
       ELSE PadDone(PadRewrite(cacheReadOneBlock(a.s, (oldSize \div B) * B,
                                                 oldSize % B,
                                                 a.mb.data = NullPtr),
                               a.mb, (oldSize \div B) * B, newSize % B),
                    a.mb)
  ELSE PadDone([s |-> a.s, res |-> 0], a.mb)

\* padFile step 1: extend the first block to full length
PadStep1(a, oldSize) ==
  IF oldSize % B # 0
  THEN IF Bad(a.mb, B) THEN [s |-> Crash(a.s), res |-> 0]
       ELSE PadRewrite(cacheReadOneBlock(a.s, (oldSize \div B) * B,
                                         oldSize % B, a.mb.data = NullPtr),
                       a.mb, (oldSize \div B) * B, B)
  ELSE [s |-> a.s, res |-> 0]

\* padFile step 2: B-sized zero blocks for the whole blocks in between
RECURSIVE PadLoop(_, _, _, _)
PadLoop(st, blk, newLastBlock, mb) ==
  IF st.s.crash \/ st.res < 0 \/ blk = newLastBlock THEN st
  ELSE IF Bad(mb, B) THEN [s |-> Crash(st.s), res |-> 0]
  ELSE PadLoop(cacheWriteOneBlock(st.s, blk * B, Zeros(B), mb.data = NullPtr),
               blk + 1, newLastBlock, mb)

\* padFile step 3: the last block, if the write is forced and it is non-empty
PadStep3(st, mb, newSize, forceWrite) ==
  IF (~st.s.crash) /\ st.res >= 0 /\ forceWrite /\ newSize % B # 0
  THEN IF Bad(mb, newSize % B) THEN [s |-> Crash(st.s), res |-> 0]
       ELSE cacheWriteOneBlock(st.s, (newSize \div B) * B,
                               Zeros(newSize % B), mb.data = NullPtr)
  ELSE st

\* padFile across blocks, with the scratch block a.mb
PadBlocks(a, oldSize, newSize, forceWrite) ==
  PadDone(
    PadStep3(
      IF ~cfg.allowHoles
      THEN PadLoop(PadStep1(a, oldSize),
                   IF oldSize % B # 0 THEN oldSize \div B + 1
                   ELSE oldSize \div B,
                   newSize \div B, a.mb)
      ELSE PadStep1(a, oldSize),
      a.mb, newSize, forceWrite),
    a.mb)

\* BlockFileIO::padFile(oldSize, newSize, forceWrite)
padFile(s, oldSize, newSize, forceWrite) ==
  IF oldSize \div B = newSize \div B
  THEN IF forceWrite THEN PadSameBlock(PoolAllocate(s, B), oldSize, newSize)
       ELSE [s |-> s, res |-> 0]  \* "optimization: not padding last block"
  ELSE PadBlocks(PoolAllocate(s, B), oldSize, newSize, forceWrite)

\* tail of BlockFileIO::write
WriteDone(s, res, mb, total) ==
  IF s.crash THEN [s |-> s, res |-> 0]
  ELSE [s |-> ReleaseIfSet(s, mb), res |-> IF res < 0 THEN res ELSE total]

RECURSIVE WriteLoop(_, _, _, _, _, _, _)

\* one round of the loop after cacheWriteOneBlock(blockReq) returned w
WriteNext(w, blockNum, rest, fileSize, mb, total) ==
  IF w.s.crash \/ w.res < 0 THEN WriteDone(w.s, w.res, mb, total)
  ELSE WriteLoop(w.s, blockNum + 1, 0, rest, fileSize, mb, total)

\* the while loop of BlockFileIO::write ("have to merge data with existing
\* block(s)")
WriteLoop(s, blockNum, partialOffset, rest, fileSize, mb, total) ==
  IF Len(rest) = 0 THEN WriteDone(s, 0, mb, total)
  ELSE
    LET toCopy == Min(B - partialOffset, Len(rest))
    IN IF toCopy = B
          \/ (partialOffset = 0 /\ blockNum * B + toCopy >= fileSize)
       THEN \* write directly from the request buffer
            WriteNext(cacheWriteOneBlock(s, blockNum * B, Take(rest, toCopy),
                                         FALSE),
                      blockNum, SubSeq(rest, toCopy + 1, Len(rest)),
                      fileSize, mb, total)
       ELSE \* "if (mb.data = nullptr)": the condition assigns the null
            \* pointer and is false, so no block is allocated, and
            \* memset(mb.data, 0, _blockSize) goes through the null pointer
            IF Bad([mb EXCEPT !.data = NullPtr], B)
            THEN [s |-> Crash(s), res |-> 0]
            ELSE WriteDone(s, 0, mb, total)

\* BlockFileIO::write once the file is padded up to the offset
WriteData(s, off, data, fileSize) ==
  IF off % B = 0 /\ Len(data) <= B
     /\ (Len(data) = B
         \/ (off \div B = fileSize \div B /\ Len(data) >= fileSize % B))
  THEN cacheWriteOneBlock(s, off, data, FALSE)
  ELSE WriteLoop(s, off \div B, off % B, data, fileSize, NoBlock, Len(data))

\* "int res = padFile(...); if (res < 0) return res;"
WritePadded(p, off, data, fileSize) ==
  IF p.s.crash \/ p.res < 0 THEN p ELSE WriteData(p.s, off, data, fileSize)

\* BlockFileIO::write(req)
write(s, off, data) ==
  IF off > GetSize(s)
  THEN WritePadded(padFile(s, GetSize(s), off, FALSE), off, data, GetSize(s))
  ELSE WriteData(s, off, data, GetSize(s))

\* truncateBase, partial block: release the scratch block, return res
TruncDone(u, mb) ==
  IF u.s.crash THEN [s |-> u.s, res |-> 0]
  ELSE [s |-> PoolRelease(u.s, mb), res |-> IF u.res < 0 THEN u.res ELSE 0]

\* truncateBase, partial block, after base->truncate returned t
TruncRewrite(t, mb, data, size) ==
  IF t.res = 0
  THEN TruncDone(cacheWriteOneBlock(t.s, (size \div B) * B,
                                    Take(Overlay(Zeros(B), 0, data), size % B),
                                    mb.data = NullPtr),
                 mb)
  ELSE TruncDone(t, mb)

\* truncateBase, partial block, after cacheReadOneBlock returned r
TruncRead(r, mb, size, hasBase) ==
  IF r.s.crash THEN [s |-> r.s, res |-> 0]
  ELSE IF r.res < 0 THEN TruncDone([s |-> r.s, res |-> r.res], mb)
  ELSE TruncRewrite(IF hasBase THEN BaseTruncate(r.s, size)
                    ELSE [s |-> r.s, res |-> 0],
                    mb, r.data, size)

\* truncateBase, partial block, with the scratch block a.mb
TruncPartial(a, size, hasBase) ==
  TruncRead(cacheReadOneBlock(a.s, (size \div B) * B, B, a.mb.data = NullPtr),
            a.mb, size, hasBase)

\* truncateBase, growing, after base->truncate returned t
TruncGrow(t, oldSize, size) ==
  IF t.res = 0 THEN padFile(t.s, oldSize, size, TRUE) ELSE t

\* BlockFileIO::truncateBase(size, base); hasBase: base != nullptr
truncateBase(s, size, hasBase) ==
  IF size > GetSize(s)
  THEN TruncGrow(IF hasBase THEN BaseTruncate(s, size)
                 ELSE [s |-> s, res |-> 0],
                 GetSize(s), size)
  ELSE IF size = GetSize(s) THEN [s |-> s, res |-> 0]
  ELSE IF size % B # 0 THEN TruncPartial(PoolAllocate(s, B), size, hasBase)
  ELSE \* truncating on a block boundary
       IF hasBase THEN BaseTruncate(s, size) ELSE [s |-> s, res |-> 0]

\* MACFileIO::truncate after truncateBase(size, nullptr) returned r
MACTruncateBase(r, size) ==
  IF (~r.s.crash) /\ r.res = 0
  THEN BaseTruncate(r.s, locWithHeader(size, B + HeaderSize, HeaderSize))
  ELSE r

\* MACFileIO::truncate(size)
MACTruncate(s, size) == MACTruncateBase(truncateBase(s, size, FALSE), size)

\* FileIO::truncate(size) of the layer under test; the plain layer calls
\* truncateBase with its base, as a cipher layer without header does
truncate(s, size) ==
  IF cfg.layer = "mac" THEN MACTruncate(s, size)
  ELSE truncateBase(s, size, TRUE)

----------------------------------------------------------------------------
(* The file seen through the layer under test.                             *)

\* physical position (1-based) of logical byte j (0-based)
PhysPos(j) == j + (j \div B + 1) * HeaderSize + 1

\* the logical content: the backing file with the block headers stripped
Content(s) ==
  IF cfg.layer = "mac"
  THEN [j \in 1..GetSize(s) |-> s.file[PhysPos(j - 1)]]
  ELSE s.file

\* the bytes a fresh test file holds, and the bytes a write request carries
Orig(n) == [i \in 1..n |-> 10 + i]
Payload(n) == [i \in 1..n |-> 100 + i]

----------------------------------------------------------------------------
(* Requests against one open file: the state machine of the block engine.  *)

NoLast ==
  [op |-> "none", off |-> 0, len |-> 0, res |-> 0, out |-> <<>>,
   pre |-> <<>>, fault |-> FALSE, follows |-> FALSE, pre2 |-> <<>>,
   preBack |-> 0, clean |-> TRUE]

NoGrown == [stage |-> 0, size |-> 0, content |-> <<>>]

IdleIO ==
  [file |-> <<>>, coff |-> 0, clen |-> 0, cdata |-> <<>>, log |-> <<>>,
   pool |-> <<>>, fw |-> 0, fr |-> 0, fail |-> 0, rnd |-> 0,
   randFail |-> FALSE,
   crash |-> FALSE]

\* BlockFileIO::BlockFileIO: the block size, the two options, an empty cache
PlainCfg(holes, nocache) ==
  [layer |-> "plain", bs |-> BlockSize, allowHoles |-> holes,
   noCache |-> nocache, macBytes |-> 0, randBytes |-> 0,
   forceDecode |-> FALSE]

InitBlock ==
  /\ RegIdle /\ RenIdle /\ NmIdle /\ ThrIdle
  /\ cfg \in {PlainCfg(h, n) : h \in BOOLEAN, n \in BOOLEAN}
  /\ io \in {[IdleIO EXCEPT !.file = Orig(n)] : n \in 0..MaxSize}
  /\ last = NoLast
  /\ nops = 0
  /\ grown = NoGrown

\* a request starts with an empty call log and the faults armed for it
Armed(f, g) == [io EXCEPT !.log = <<>>, !.fw = f, !.fr = g, !.fail = 0]

\* and ends with the faults disarmed
Settled(s) == [s EXCEPT !.fw = 0, !.fr = 0]

Alive == (~io.crash) /\ nops < MaxOps

\* every request so far was a write or truncate that succeeded
CleanSoFar ==
  /\ last.clean
  /\ \/ last.op = "none"
     \/ last.op \in {"write", "truncate"} /\ (~last.fault) /\ last.res >= 0

\* the request reads back what the previous request wrote successfully
FollowsWrite(off, len, g) ==
  /\ g = 0
  /\ last.op = "write" /\ (~last.fault) /\ last.res >= last.len
  /\ last.off = off /\ last.len = len

\* the request repeats the previous truncate
FollowsTruncate(size, f, g) ==
  /\ f = 0 /\ g = 0
  /\ last.op = "truncate" /\ (~last.fault) /\ last.off = size

\* the state after a write request that returned r
WriteOutcome(r, off, len, f) ==
  /\ io' = Settled(r.s)
  /\ last' = [op |-> "write", off |-> off, len |-> len, res |-> r.res,
                    out |-> <<>>, pre |-> Content(io), fault |-> f # 0,
                    follows |-> FALSE,
                    pre2 |-> IF cfg.layer = "cipher"
                             THEN <<io.externalIV, io.fileIV>> ELSE <<>>,
                    preBack |-> BaseSize(io), clean |-> CleanSoFar]

\* write(offset = off, data = Payload(len))
Write(off, len, f) ==
  /\ Alive
  /\ WriteOutcome(write(Armed(f, 0), off, Payload(len)), off, len, f)
  /\ nops' = nops + 1
  /\ grown' = NoGrown
  /\ UNCHANGED <<thr, cfg, reg, ren, nm>>

\* the state after a read request that returned r
ReadOutcome(r, off, len, g) ==
  /\ io' = Settled(r.s)
  /\ last' = [op |-> "read", off |-> off, len |-> len, res |-> r.res,
                    out |-> r.data, pre |-> Content(io), fault |-> g # 0,
                    follows |-> FollowsWrite(off, len, g),
                    pre2 |-> IF FollowsWrite(off, len, g) THEN last.pre
                             ELSE <<>>,
                    preBack |-> BaseSize(io), clean |-> CleanSoFar]

\* read(offset = off, dataLen = len)
Read(off, len, g) ==
  /\ Alive
  /\ ReadOutcome(read(Armed(0, g), off, len), off, len, g)
  /\ nops' = nops + 1
  /\ grown' = NoGrown
  /\ UNCHANGED <<thr, cfg, reg, ren, nm>>

\* the state after a truncate request that returned r
TruncateOutcome(r, size, f, g) ==
  /\ io' = Settled(r.s)
  /\ last' = [op |-> "truncate", off |-> size, len |-> 0, res |-> r.res,
                    out |-> <<>>, pre |-> Content(io),
                    fault |-> f # 0 \/ g # 0,
                    follows |-> FollowsTruncate(size, f, g), pre2 |-> <<>>,
                    preBack |-> BaseSize(io), clean |-> CleanSoFar]

\* truncate(size); grown remembers a growing truncate and the truncate back
\* that follows it
Truncate(size, f, g) ==
  /\ Alive
  /\ TruncateOutcome(truncate(Armed(f, g), size), size, f, g)
  /\ nops' = nops + 1
  /\ grown' = IF f = 0 /\ g = 0 /\ size > GetSize(io)
              THEN [stage |-> 1, size |-> GetSize(io), content |-> Content(io)]
              ELSE IF f = 0 /\ g = 0 /\ grown.stage = 1 /\ size = grown.size
              THEN [grown EXCEPT !.stage = 2]
              ELSE NoGrown
  /\ UNCHANGED <<thr, cfg, reg, ren, nm>>

NextBlock ==
  \/ \E off \in 0..MaxSize, len \in 1..MaxLen, f \in 0..MaxFault :
       Write(off, len, f)
  \/ \E off \in 0..MaxSize, len \in 1..MaxLen, g \in 0..MaxFault :
       Read(off, len, g)
  \/ \E size \in 0..MaxSize, f \in 0..MaxFault, g \in 0..MaxFault :
       Truncate(size, f, g)

SpecBlock == InitBlock /\ [][NextBlock]_vars

----------------------------------------------------------------------------
(* Properties of the block engine, stated over SpecBlock.                  *)

\* the call log of the last request holds a writeOneBlock of a whole block
\* at block blk
WroteBlock(blk) ==
  \E i \in 1..Len(io.log) : io.log[i] = <<"w", blk * B, B>>

\* the call log of the last request holds some writeOneBlock at block blk
TouchedBlock(blk) ==
  \E i \in 1..Len(io.log) : io.log[i][1] = "w" /\ io.log[i][2] = blk * B

\* C1: a read(O, L) that follows a successful write(O, P) with L = |P|
\* returns exactly L bytes equal to P, and the bytes that existed before the
\* write outside [O, O+L) are unchanged.
C1_ReadAfterWrite ==
  (last.op = "read" /\ last.follows) =>
    /\ ~io.crash
    /\ last.res = last.len
    /\ last.out = Payload(last.len)
    /\ \A i \in 1..Len(last.pre2) :
         (i <= last.off \/ i > last.off + last.len)
           => Content(io)[i] = last.pre2[i]

\* C7: a write of L > 0 bytes at an offset O beyond the size S, met by no
\* failure of the lower layer, completes with L; afterwards the size is
\* O + L, [0, S) is unchanged, [S, O) is zero, [O, O+L) is the payload, and
\* every whole block inside the gap got a B-sized zero write exactly when
\* allowHoles is off.
C7_WriteBeyondEOF ==
  (last.op = "write" /\ (~last.fault) /\ last.off > Len(last.pre)) =>
    /\ ~io.crash
    /\ last.res = last.len
    /\ GetSize(io) = last.off + last.len
    /\ \A i \in 1..GetSize(io) :
         Content(io)[i] = IF i <= Len(last.pre) THEN last.pre[i]
                          ELSE IF i <= last.off THEN 0
                          ELSE Payload(last.len)[i - last.off]
    /\ \A blk \in 0..(last.off \div B) :
         (blk * B >= Len(last.pre) /\ (blk + 1) * B <= last.off)
           => IF cfg.allowHoles THEN ~TouchedBlock(blk) ELSE WroteBlock(blk)

\* C8: with the cache enabled, after successful writes and truncates only, a
\* read at an offset at or beyond the current size returns 0 bytes.
C8_ReadPastEOF ==
  (last.op = "read" /\ last.clean /\ (~last.fault) /\ (~cfg.noCache)
     /\ last.off >= Len(last.pre))
    => last.res = 0

\* C9: truncate(S') with S' > S followed by truncate(S) goes through and
\* yields size S and the original content, aligned or not.
C9_TruncateUpDown ==
  (grown.stage >= 1) =>
    /\ ~io.crash
    /\ last.res = 0
    /\ (grown.stage = 2 =>
          GetSize(io) = grown.size /\ Content(io) = grown.content)

\* the last request met a failing block call (the call at io.log[io.fail])
BlockCallFailed ==
  io.fail > 0 /\ io.log[io.fail][1] \in {"r", "w"}

\* calls logged after the failing one
AfterFailure == (io.fail + 1)..Len(io.log)

\* C31: when a readOneBlock or writeOneBlock call issued during read, write,
\* padFile or truncateBase returns a negative value e, the request returns e,
\* the failed call is not issued again, no block write and no backing
\* truncate follows it in that request, and after a failed block write the
\* cache holds no valid block.
C31_ErrorsPropagate ==
  BlockCallFailed =>
    /\ ~io.crash
    /\ last.res = -EIO
    /\ \A i \in AfterFailure :
         io.log[i][1] \notin {"w", "t"} /\ io.log[i] # io.log[io.fail]
    /\ (io.log[io.fail][1] = "w" => io.clen = 0)

\* the last request went through a scratch block: a truncate into the middle
\* of a block of the file, or a read that starts inside a block
TookScratch ==
  \/ last.op = "truncate" /\ last.off % B # 0 /\ last.off < Len(last.pre)
  \/ last.op = "read" /\ last.off % B # 0

\* C40: every scratch block that read, write, padFile and truncateBase zero,
\* read into or copy from comes from MemoryPool::allocate with room for the
\* bytes accessed, never a null or empty buffer, and on every way out of the
\* operation the block is handed back to the pool once
C40_ScratchValidAndReturned ==
  /\ ~io.crash
  /\ TookScratch => Len(io.pool) >= 1

\* what readOneBlock at the cache's offset delivers in state s, no fault armed
BlockNow(s) == readOneBlock(Settled(s), s.coff)

\* C29: the one-block cache is transparent: with the cache enabled, whenever
\* it holds data (cache.dataLen > 0) after any sequence of reads, writes and
\* truncates, failing block writes included, the cached bytes are the bytes
\* readOneBlock at cache.offset would return now, so a hit answers as a miss.
C29_CacheTransparent ==
  (io.clen > 0 /\ (~io.crash) /\ (~cfg.noCache)) =>
    /\ BlockNow(io).res = io.clen
    /\ BlockNow(io).data = io.cdata

----------------------------------------------------------------------------
(* The same requests against a file under MAC framing (MACFileIO over the  *)
(* cipher layer, whose read and write copy through req.data).              *)

RandByte == 7       \* the byte cipher->randomize() delivers

\* MACFileIO::MACFileIO: the engine's block is the data part of a framed block
MacCfg(m, r, holes, force) ==
  [layer |-> "mac", bs |-> BlockSize, allowHoles |-> holes,
   noCache |-> FALSE, macBytes |-> m, randBytes |-> r, forceDecode |-> force]

\* a well-formed backing file holding the logical bytes c, block by block
RECURSIVE Framed(_)
Framed(c) ==
  IF Len(c) = 0 THEN <<>>
  ELSE MACFrame(Take(c, B), RandByte)
         \o Framed(SubSeq(c, Min(B, Len(c)) + 1, Len(c)))

InitMAC ==
  /\ RegIdle /\ RenIdle /\ NmIdle /\ ThrIdle
  /\ cfg \in {MacCfg(m, r, h, f) :
                m \in {1, 8}, r \in {0, 1}, h \in BOOLEAN, f \in BOOLEAN}
  /\ \E n \in 0..MaxSize :
       io = [IdleIO EXCEPT !.file = Framed(Orig(n)), !.rnd = RandByte]
  /\ last = NoLast
  /\ nops = 0
  /\ grown = NoGrown

\* the backing file is changed behind the layer before it is used: byte pos
\* of the first framed block becomes v
Tamper(pos, v) ==
  /\ Alive
  /\ nops = 0
  /\ pos <= Len(io.file)
  /\ io.file[pos] # v
  /\ io' = [io EXCEPT !.file[pos] = v, !.log = <<>>, !.fail = 0]
  /\ last' = [NoLast EXCEPT !.op = "tamper", !.off = pos,
                            !.pre = Content(io), !.preBack = BaseSize(io),
                            !.clean = FALSE]
  /\ nops' = nops + 1
  /\ grown' = NoGrown
  /\ UNCHANGED <<thr, cfg, reg, ren, nm>>

NextMAC ==
  \/ NextBlock
  \/ \E pos \in 1..(HeaderSize + B), v \in {0, 1} : Tamper(pos, v)

SpecMAC == InitMAC /\ [][NextMAC]_vars

----------------------------------------------------------------------------
(* Properties of the MAC layer, stated over SpecMAC.                       *)

\* the framed block that holds the logical block at off
FrameAt(off) ==
  FileSlice(io.file, locWithHeader(off, B + HeaderSize, HeaderSize),
            HeaderSize + B)

\* the MAC recomputed over bytes [macBytes .. end] of a framed block differs
\* from the stored header in one of its first macBytes bytes
Mismatch(frame) ==
  \E i \in 1..cfg.macBytes :
    MAC_64(SubSeq(frame, cfg.macBytes + 1, Len(frame)))[i] # frame[i]

\* the last request is for one block and met no injected fault
OneBlockRequest ==
  (~last.fault) /\ last.off % B = 0 /\ last.len <= B

\* C4: with macBytes >= 1, forceDecode and allowHoles off, a block handed to
\* writeOneBlock is stored, and the read of that block that follows returns
\* the payload length and the payload bytes, never -EBADMSG.
C4_MACRoundTrip ==
  (cfg.macBytes >= 1 /\ (~cfg.forceDecode) /\ (~cfg.allowHoles)
     /\ OneBlockRequest) =>
    /\ (last.op = "write" => (~io.crash) /\ last.res >= last.len)
    /\ (last.op = "read" /\ last.follows =>
          /\ ~io.crash
          /\ last.res = last.len
          /\ last.out = Payload(last.len))

\* C5: with macBytes > 0, a readOneBlock of a framed block whose recomputed
\* MAC differs from the stored header returns -EBADMSG and no payload;
\* with forceDecode it returns the payload instead.
C5_TamperDetected ==
  (last.op = "read" /\ OneBlockRequest /\ cfg.macBytes > 0
     /\ (~cfg.allowHoles)
     /\ (\E i \in 1..Len(io.log) : io.log[i] = <<"r", last.off, B>>)
     /\ Len(FrameAt(last.off)) > HeaderSize
     /\ Mismatch(FrameAt(last.off))) =>
    /\ ~io.crash
    /\ IF cfg.forceDecode
       THEN LET payload == SubSeq(FrameAt(last.off), HeaderSize + 1,
                                  Len(FrameAt(last.off)))
            IN /\ last.res = Min(last.len, Len(payload))
               /\ last.out = Take(payload, last.len)
       ELSE last.res = -EBADMSG /\ last.out = <<>>

\* C10: truncate(S) goes through for every S; under MAC framing the backing
\* size is then locWithHeader(S, B, macBytes + randBytes) with B the framed
\* block size; and a second truncate(S) leaves backing size and logical
\* content as the first left them.
C10_TruncateIdempotent ==
  (last.op = "truncate" /\ (~last.fault)) =>
    /\ ~io.crash
    /\ last.res = 0
    /\ BaseSize(io) = locWithHeader(last.off, B + HeaderSize, HeaderSize)
    /\ (last.follows =>
          BaseSize(io) = last.preBack /\ Content(io) = last.pre)

----------------------------------------------------------------------------
(* Open-file registry (Context.cpp) and the file nodes it tracks.          *)

MaxNodes == 2       \* file nodes created per run
MaxOpen == 3        \* entries in all path lists together

\* the block engine at rest, for the specifications that do not run it
IOIdle ==
  /\ cfg = PlainCfg(FALSE, FALSE) /\ io = IdleIO /\ last = NoLast
  /\ nops = 0 /\ grown = NoGrown

\* plaintext paths: a directory holding a file f and a subdirectory s with a
\* file g, before ("from") and after ("to") the directory is renamed
Tops == {"from", "to"}
Paths == UNION {{<<t, "f">>, <<t, "s">>, <<t, "s", "g">>} : t \in Tops}

\* naming->encodePath(path): every component is encoded under the IV chained
\* from the components above it, so its ciphertext depends on the top name
EncodePath(p) == [i \in 1..Len(p) |-> <<p[i], p[1]>>]

\* the null shared_ptr<FileNode>
NoNode == 0

\* EncFS_Context::lookupNode(path)
lookupNode(r, p) ==
  IF p \in DOMAIN r.openFiles THEN Head(r.openFiles[p]) ELSE NoNode

\* EncFS_Context::renameNode(from, to)
CtxRenameNode(r, from, to) ==
  IF from \in DOMAIN r.openFiles
  THEN [r EXCEPT !.openFiles = MapPut(MapErase(@, from), to, r.openFiles[from])]
  ELSE r

\* EncFS_Context::lookupFuseFh(n)
lookupFuseFh(r, h) ==
  IF h \in DOMAIN r.fuseFhMap THEN r.fuseFhMap[h] ELSE NoNode

\* putNode adding the node at the back of the path's list
pushBackNode(r, p, n) ==
  [r EXCEPT !.openFiles =
              MapPut(@, p, (IF p \in DOMAIN @ THEN @[p] ELSE <<>>) \o <<n>>),
            !.fuseFhMap = MapPut(@, r.nodes[n].fuseFh, n)]

\* EncFS_Context::putNode(path, node)
putNode(r, p, n) ==
  [r EXCEPT !.openFiles =
              MapPut(@, p, <<n>> \o (IF p \in DOMAIN @ THEN @[p] ELSE <<>>)),
            !.fuseFhMap = MapPut(@, r.nodes[n].fuseFh, n)]

\* list.erase(std::find(list.begin(), list.end(), fnode))
RECURSIVE RemoveFirst(_, _)
RemoveFirst(list, n) ==
  IF list = <<>> THEN <<>>
  ELSE IF Head(list) = n THEN Tail(list)
  ELSE <<Head(list)>> \o RemoveFirst(Tail(list), n)

\* the two rAsserts of eraseNode hold
CanErase(r, p, n) ==
  p \in DOMAIN r.openFiles /\ n \in Range(r.openFiles[p])

\* eraseNode once fnode is erased from the list, rest being what is left
EraseRest(r, p, n, rest) ==
  [r EXCEPT
     !.fuseFhMap = IF n \in Range(rest) THEN @
                   ELSE MapErase(@, r.nodes[n].fuseFh),
     !.nodes[n].canary = IF n \in Range(rest) THEN @ ELSE "released",
     !.openFiles = IF rest = <<>> THEN MapErase(@, p)
                   ELSE [@ EXCEPT ![p] = rest]]

\* EncFS_Context::eraseNode(path, fnode)
eraseNode(r, p, n) == EraseRest(r, p, n, RemoveFirst(r.openFiles[p], n))

\* new FileNode(this, fsConfig, plainName, cipherName, ctx->nextFuseFh())
NewNode(r, p) ==
  [r EXCEPT !.nodes = Append(@, [pname |-> p, cname |-> EncodePath(p),
                                 fuseFh |-> r.currentFuseFh,
                                 canary |-> "ok"]),
            !.currentFuseFh = @ + 1]

\* entries in all path lists together
OpenCount(r) ==
  LET RECURSIVE Sum(_)
      Sum(ps) == IF ps = {} THEN 0
                 ELSE LET q == CHOOSE q \in ps : TRUE
                      IN Len(r.openFiles[q]) + Sum(ps \ {q})
  IN Sum(DOMAIN r.openFiles)

InitCtx == IOIdle /\ RenIdle /\ NmIdle /\ reg = NewContext /\ ThrIdle

CtxFrame == UNCHANGED <<thr, cfg, io, last, nops, grown, ren, nm>>

CreateNode(p) ==
  /\ Len(reg.nodes) < MaxNodes
  /\ reg' = NewNode(reg, p)
  /\ CtxFrame

PutNode(p, n) ==
  /\ OpenCount(reg) < MaxOpen
  /\ reg' = putNode(reg, p, n)
  /\ CtxFrame

\* eraseNode throws (and changes nothing) unless the node is in the list
EraseNode(p, n) ==
  /\ CanErase(reg, p, n)
  /\ reg' = eraseNode(reg, p, n)
  /\ CtxFrame

RenameNode(from, to) ==
  /\ reg' = CtxRenameNode(reg, from, to)
  /\ CtxFrame

NextCtx ==
  \/ \E p \in Paths : CreateNode(p)
  \/ \E p \in Paths, n \in 1..Len(reg.nodes) : PutNode(p, n)
  \/ \E p \in Paths, n \in 1..Len(reg.nodes) : EraseNode(p, n)
  \/ \E from \in Paths, to \in Paths : RenameNode(from, to)

SpecCtx == InitCtx /\ [][NextCtx]_vars

\* C2: every handle id in the handle map maps to a node that is present in
\* at least one path list of the path map.
C2_HandleMapInPathMap ==
  \A h \in DOMAIN reg.fuseFhMap :
    \E p \in DOMAIN reg.openFiles : reg.fuseFhMap[h] \in Range(reg.openFiles[p])

----------------------------------------------------------------------------
(* The registry against a map from path to node sequence: the same         *)
(* operations, each remembering its arguments and the registry it met.     *)

\* the paths the operations are called with
RegPaths == {<<"from", "f">>, <<"to", "f">>}

RegFrame == UNCHANGED <<thr, cfg, io, nops, grown, ren, nm>>

Called(op, p, q, n) ==
  last' = [op |-> op, path |-> p, to |-> q, node |-> n, pre |-> reg]

\* a node is created for the file it will first be registered under
RegCreate ==
  /\ Len(reg.nodes) < MaxNodes
  /\ reg' = NewNode(reg, <<"from", "f">>)
  /\ Called("create", <<"from", "f">>, <<"from", "f">>, Len(reg.nodes) + 1)
  /\ RegFrame

RegPut(p, n) ==
  /\ OpenCount(reg) < MaxOpen
  /\ reg' = putNode(reg, p, n)
  /\ Called("put", p, p, n)
  /\ RegFrame

\* eraseNode throws (and changes nothing) unless the node is in the list
RegErase(p, n) ==
  /\ CanErase(reg, p, n)
  /\ reg' = eraseNode(reg, p, n)
  /\ Called("erase", p, p, n)
  /\ RegFrame

RegRename(from, to) ==
  /\ reg' = CtxRenameNode(reg, from, to)
  /\ Called("rename", from, to, NoNode)
  /\ RegFrame

NextRegistry ==
  \/ RegCreate
  \/ \E p \in RegPaths, n \in 1..Len(reg.nodes) : RegPut(p, n)
  \/ \E p \in RegPaths, n \in 1..Len(reg.nodes) : RegErase(p, n)
  \/ \E from \in RegPaths, to \in RegPaths : RegRename(from, to)

SpecRegistry == InitCtx /\ [][NextRegistry]_vars

\* the abstract map: the node sequence of path p, empty when p has no key
SeqAt(r, p) == IF p \in DOMAIN r.openFiles THEN r.openFiles[p] ELSE <<>>

\* occurrences of node n in a sequence
Occurrences(list, n) == Cardinality({i \in 1..Len(list) : list[i] = n})

\* no path key maps to an empty sequence
NoEmptyList == \A p \in DOMAIN reg.openFiles : reg.openFiles[p] # <<>>

\* after putNode(p, n): n heads p's sequence, the rest is as before, and the
\* handle of n finds n
PutRefines ==
  (last.op = "put") =>
    /\ lookupNode(reg, last.path) = last.node
    /\ lookupFuseFh(reg, reg.nodes[last.node].fuseFh) = last.node
    /\ SeqAt(reg, last.path) = <<last.node>> \o SeqAt(last.pre, last.path)
    /\ \A q \in RegPaths \ {last.path} : SeqAt(reg, q) = SeqAt(last.pre, q)

\* after eraseNode(p, n): one occurrence of n is gone from p's sequence; the
\* handle is dropped and the canary released exactly when none remains at p
EraseRefines ==
  (last.op = "erase") =>
    /\ Len(SeqAt(reg, last.path)) = Len(SeqAt(last.pre, last.path)) - 1
    /\ \A m \in 1..Len(reg.nodes) :
         Occurrences(SeqAt(reg, last.path), m) =
           Occurrences(SeqAt(last.pre, last.path), m)
             - (IF m = last.node THEN 1 ELSE 0)
    /\ \A q \in RegPaths \ {last.path} : SeqAt(reg, q) = SeqAt(last.pre, q)
    /\ IF Occurrences(SeqAt(reg, last.path), last.node) = 0
       THEN /\ lookupFuseFh(reg, reg.nodes[last.node].fuseFh) = NoNode
            /\ reg.nodes[last.node].canary = "released"
       ELSE /\ reg.fuseFhMap = last.pre.fuseFhMap
            /\ reg.nodes = last.pre.nodes

\* after renameNode(from, to) with from present: to answers with the former
\* head of from; with from absent: nothing changed
RenameRefines ==
  (last.op = "rename") =>
    IF last.path \in DOMAIN last.pre.openFiles
    THEN lookupNode(reg, last.to) = Head(last.pre.openFiles[last.path])
    ELSE reg = last.pre

----------------------------------------------------------------------------
(* Recursive rename (DirNode.cpp: RenameEl, RenameOp, DirNode::renameNode). *)

\* ciphertext names on disk before the rename: the directory and its tree
InitialNames ==
  {EncodePath(<<"from">>)} \cup {EncodePath(p) : p \in {q \in Paths : q[1] = "from"}}

\* one entry as genRenameList builds it for the item at rel below the
\* directory: both ciphertext names lie under the old directory names, the
\* new last component is the name encoded under the destination's IV
RenameEl(rel, isDir) ==
  [oldCName |-> EncodePath(<<"from">> \o rel),
   newCName |-> [EncodePath(<<"from">> \o rel) EXCEPT
                   ![Len(rel) + 1] = EncodePath(<<"to">> \o rel)[Len(rel) + 1]],
   oldPName |-> <<"from">> \o rel,
   newPName |-> <<"to">> \o rel,
   isDirectory |-> isDir]

\* the list for the tree: descendants of s before s itself, then f
RenameList ==
  <<RenameEl(<<"s", "g">>, FALSE), RenameEl(<<"s">>, TRUE), RenameEl(<<"f">>, FALSE)>>

IsPrefix(p, q) == Len(p) <= Len(q) /\ SubSeq(q, 1, Len(p)) = p

\* ::rename(old, new) succeeds: old exists, the parent of new exists and new
\* is not a directory with entries
CanRename(names, old, new) ==
  /\ old \in names
  /\ Len(new) = 1 \/ SubSeq(new, 1, Len(new) - 1) \in names
  /\ \A n \in names : IsPrefix(new, n) => n = new

\* the names after ::rename(old, new): old and all below it move
Moved(names, old, new) ==
  {IF IsPrefix(old, n) THEN new \o SubSeq(n, Len(old) + 1, Len(n)) ELSE n :
     n \in names \ {new}}

\* ::rename(old, new) with an injected failure; [w, ok]
SysRename(w, old, new, fail) ==
  IF fail \/ ~CanRename(w.names, old, new)
  THEN [w |-> [w EXCEPT !.log = Append(@, [call |-> "rename", from |-> old, to |-> new])],
        ok |-> FALSE]
  ELSE [w |-> [w EXCEPT !.names = Moved(@, old, new),
                        !.log = Append(@, [call |-> "rename", from |-> old, to |-> new])],
        ok |-> TRUE]

\* static setIV(io, iv): a directory has no IV to set, a file asks its io
setIV(isDir, ioSetIV) == isDir \/ ioSetIV

\* FileNode::setName(plaintextName_, cipherName_, iv, setIVFirst) on node nd,
\* iv being what setIV(io, iv) returns; [ok, nd]
setName(nd, pn, cn, iv, setIVFirst, extIV) ==
  IF setIVFirst
  THEN IF extIV /\ ~iv THEN [ok |-> FALSE, nd |-> nd]
       ELSE [ok |-> TRUE, nd |-> [nd EXCEPT !.pname = pn, !.cname = cn]]
  ELSE IF extIV /\ iv THEN [ok |-> TRUE, nd |-> nd]
       ELSE [ok |-> TRUE, nd |-> [nd EXCEPT !.pname = pn, !.cname = cn]]

\* the node findOrCreate(p) returns: the registered one or a fresh one
NodeOf(r, p) ==
  IF lookupNode(r, p) # NoNode THEN r.nodes[lookupNode(r, p)]
  ELSE [pname |-> p, cname |-> EncodePath(p), fuseFh |-> r.currentFuseFh,
        canary |-> "ok"]

\* the registry after findOrCreate(p): a fresh node takes the next handle id
findOrCreate(r, p) ==
  IF lookupNode(r, p) # NoNode THEN r ELSE [r EXCEPT !.currentFuseFh = @ + 1]

\* the node's new state is kept if the node is a registered one
StoreNode(r, p, nd) ==
  IF lookupNode(r, p) # NoNode THEN [r EXCEPT !.nodes[lookupNode(r, p)] = nd]
  ELSE findOrCreate(r, p)

\* DirNode::renameNode once setName has returned sn
DirRenamed(w, from, to, sn) ==
  IF sn.ok
  THEN [w |-> [w EXCEPT !.r = CtxRenameNode(StoreNode(@, from, sn.nd), from, to)],
        ok |-> TRUE]
  ELSE [w |-> [w EXCEPT !.r = findOrCreate(@, from)], ok |-> FALSE]

\* DirNode::renameNode after findOrCreate(from)
DirRenameFound(w, from, to, forwardMode, encOK, iv) ==
  IF ~encOK THEN [w |-> [w EXCEPT !.r = findOrCreate(@, from)], ok |-> FALSE]
  ELSE DirRenamed(w, from, to,
                  setName(NodeOf(w.r, from), to, EncodePath(to), iv,
                          forwardMode, w.extIV))

\* DirNode::renameNode(from, to, forwardMode); ok = FALSE when it throws
\* (encodePath fails, or setName returns false)
DirRenameNode(w, from, to, forwardMode, encOK, iv) ==
  DirRenameFound([w EXCEPT !.log = Append(@, [call |-> "renameNode",
                                               from |-> from, to |-> to])],
                 from, to, forwardMode, encOK, iv)

\* what RenameOp works on: the registry, the names on disk, the calls made
Work(r, names, extIV) == [r |-> r, names |-> names, log |-> <<>>, extIV |-> extIV]

\* entry idx of the list, idx counted from 0 as the iterator `last` is
Entry(idx) == RenameList[idx + 1]

RECURSIVE ApplyFrom(_, _, _, _)

\* RenameOp::apply after ::rename of entry idx
ApplyBacking(b, idx, failAt, kind) ==
  IF ~b.ok
  THEN [w |-> DirRenameNode(b.w, Entry(idx).newPName, Entry(idx).oldPName,
                            FALSE, TRUE, TRUE).w,
        last |-> idx, ok |-> FALSE]
  ELSE ApplyFrom(b.w, idx + 1, failAt, kind)

\* RenameOp::apply after dn->renameNode of entry idx
ApplyRenamed(d, idx, failAt, kind) ==
  IF ~d.ok THEN [w |-> d.w, last |-> idx, ok |-> FALSE]
  ELSE ApplyBacking(SysRename(d.w, Entry(idx).oldCName, Entry(idx).newCName,
                              failAt = idx /\ kind = "backing"),
                    idx, failAt, kind)

\* RenameOp::apply, the loop from entry idx; a failure of the given kind is
\* injected at entry failAt
ApplyFrom(w, idx, failAt, kind) ==
  IF idx = Len(RenameList) THEN [w |-> w, last |-> idx, ok |-> TRUE]
  ELSE ApplyRenamed(
         DirRenameNode(w, Entry(idx).oldPName, Entry(idx).newPName, TRUE,
                       ~(failAt = idx /\ kind = "encode"),
                       setIV(Entry(idx).isDirectory,
                             ~(failAt = idx /\ kind = "setIV"))),
         idx, failAt, kind)

\* RenameOp::apply()
apply(w, failAt, kind) == ApplyFrom(w, 0, failAt, kind)

\* the entries from the first one on, the order apply takes them in
UndoOrderForward(k) == [j \in 1..k |-> j - 1]

\* the entries RenameOp::undo visits: it = last; while (it != begin) --it
UndoOrder(k) == [j \in 1..k |-> k - j]

\* RenameOp::undo, one entry: the result of ::rename is ignored, an error of
\* renameNode is caught
UndoOne(w, e, ioSetIV) ==
  DirRenameNode(SysRename(w, e.newCName, e.oldCName, FALSE).w,
                e.newPName, e.oldPName, FALSE, TRUE,
                setIV(e.isDirectory, ioSetIV)).w

RECURSIVE UndoAll(_, _, _)
UndoAll(w, order, ioSetIV) ==
  IF order = <<>> THEN w
  ELSE UndoAll(UndoOne(w, Entry(Head(order)), ioSetIV), Tail(order), ioSetIV)

\* RenameOp::undo()
undo(w, lastIdx, ioSetIV) ==
  IF lastIdx = 0 THEN w ELSE UndoAll(w, UndoOrder(lastIdx), ioSetIV)

FailKinds == {"backing", "setIV", "encode"}

InitRename ==
  /\ IOIdle /\ NmIdle /\ reg = NewContext /\ ThrIdle
  /\ \E ext \in BOOLEAN :
       ren = [phase |-> "ready", extIV |-> ext, names |-> InitialNames,
              last |-> 0, ok |-> TRUE, log |-> <<>>, applied |-> 0,
              orig |-> [openFiles |-> EmptyMap, names |-> InitialNames]]

RenFrame == UNCHANGED <<thr, cfg, io, last, nops, grown, nm>>

\* a file is opened: findOrCreate(p), then the node is registered
OpenNew(r, p) == putNode(r, p, Len(r.nodes))

Open(p) ==
  /\ ren.phase = "ready"
  /\ OpenCount(reg) < MaxOpen
  /\ IF lookupNode(reg, p) # NoNode
     THEN reg' = putNode(reg, p, lookupNode(reg, p))
     ELSE Len(reg.nodes) < MaxNodes /\ reg' = OpenNew(NewNode(reg, p), p)
  /\ UNCHANGED ren
  /\ RenFrame

Applied(a) ==
  /\ reg' = a.w.r
  /\ ren' = [ren EXCEPT !.phase = IF a.ok THEN "applied" ELSE "failed",
                        !.names = a.w.names, !.last = a.last, !.ok = a.ok,
                        !.log = a.w.log, !.applied = Len(a.w.log),
                        !.orig = [openFiles |-> reg.openFiles, names |-> ren.names]]

Apply(failAt, kind) ==
  /\ ren.phase = "ready"
  /\ Applied(apply(Work(reg, ren.names, ren.extIV), failAt, kind))
  /\ RenFrame

Undone(w) ==
  /\ reg' = w.r
  /\ ren' = [ren EXCEPT !.phase = "undone", !.names = w.names,
                        !.log = @ \o w.log]

Undo(ioSetIV) ==
  /\ ren.phase \in {"applied", "failed"}
  /\ Undone(undo(Work(reg, ren.names, ren.extIV), ren.last, ioSetIV))
  /\ RenFrame

NextRename ==
  \/ \E p \in Paths : Open(p)
  \/ \E failAt \in 0..Len(RenameList), kind \in FailKinds : Apply(failAt, kind)
  \/ \E ioSetIV \in BOOLEAN : Undo(ioSetIV)

SpecRename == InitRename /\ [][NextRename]_vars

\* the calls undo has to make after a failure at entry k: for k-1 down to 0
\* the backing rename new -> old, then the registry rename new -> old
ExpectedUndo(k) ==
  [n \in 1..(2 * k) |->
     IF n % 2 = 1
     THEN [call |-> "rename", from |-> Entry(k - ((n + 1) \div 2)).newCName,
           to |-> Entry(k - ((n + 1) \div 2)).oldCName]
     ELSE [call |-> "renameNode", from |-> Entry(k - ((n + 1) \div 2)).newPName,
           to |-> Entry(k - ((n + 1) \div 2)).oldPName]]

\* entry i is under its old names: on disk, and in the registry the list that
\* was registered at the old path is there
UnderOldNames(i) ==
  /\ Entry(i).oldCName \in ren.names
  /\ Entry(i).newCName \notin ren.names
  /\ Entry(i).oldPName \in DOMAIN ren.orig.openFiles =>
       /\ Entry(i).oldPName \in DOMAIN reg.openFiles
       /\ reg.openFiles[Entry(i).oldPName] = ren.orig.openFiles[Entry(i).oldPName]

\* the names of entry j a call of this kind could carry
NamesOf(j, call) ==
  IF call = "rename" THEN {Entry(j).oldCName, Entry(j).newCName}
  ELSE {Entry(j).oldPName, Entry(j).newPName}

\* no call has named entry j, and its registry paths are as they were
Untouched(j) ==
  /\ \A n \in 1..Len(ren.log) :
       /\ ren.log[n].from \notin NamesOf(j, ren.log[n].call)
       /\ ren.log[n].to \notin NamesOf(j, ren.log[n].call)
  /\ \A p \in {Entry(j).oldPName, Entry(j).newPName} :
       /\ p \in DOMAIN reg.openFiles <=> p \in DOMAIN ren.orig.openFiles
       /\ p \in DOMAIN reg.openFiles => reg.openFiles[p] = ren.orig.openFiles[p]

----------------------------------------------------------------------------
(* Filename codecs (NullNameIO.cpp, StreamNameIO.cpp, BlockNameIO.cpp).     *)

MaxName == 2        \* bytes in a plaintext name
NameBs == 2         \* _bs, the cipher block size names are padded to

NameBytes == {46, 97, 98}
NameIVs == {0, 1, 4660}
Codecs == {"Null", "Stream", "Block", "Block32"}

PlainNames == UNION {[1..n -> NameBytes] : n \in 1..MaxName}

\* _checksum_64(key, data, len, chainedIV): a keyed checksum of the bytes and
\* of the IV bytes (the HMAC is the library's; the stand-in depends on every
\* byte, on the length and on the IV)
Checksum64(d, iv) ==
  (SumWeighted(d, 1) * 257 + 7 * Len(d) + 13 * iv + 5) % 1048576

\* cipher->MAC_16(data, len, key, iv): MAC_64 folded to 16 bits
MAC_16(d, iv) ==
  BitXor(Checksum64(d, iv) \div 65536, Checksum64(d, iv) % 65536) % 65536

\* what MAC_64 leaves in *chainedIV
ChainedIV(d, iv) == Checksum64(d, iv)

\* cipher->nameEncode / nameDecode: Cipher.h hands them to streamEncode,
\* streamDecode
nameEncode(d, iv) == streamEncode(d, iv)
nameDecode(d, iv) == streamDecode(d, iv)

\* B256ToB64Bytes, B64ToB256Bytes, B256ToB32Bytes, B32ToB256Bytes
B256ToB64Bytes(n) == (n * 8 + 5) \div 6
B64ToB256Bytes(n) == (n * 6) \div 8
B256ToB32Bytes(n) == (n * 8 + 4) \div 5
B32ToB256Bytes(n) == (n * 5) \div 8

RECURSIVE ToBits(_, _)
ToBits(v, w) == IF w = 0 THEN <<>> ELSE <<v % 2>> \o ToBits(v \div 2, w - 1)

RECURSIVE BitsOf(_, _)
BitsOf(s, w) == IF s = <<>> THEN <<>> ELSE ToBits(Head(s), w) \o BitsOf(Tail(s), w)

RECURSIVE FromBits(_)
FromBits(b) == IF b = <<>> THEN 0 ELSE Head(b) + 2 * FromBits(Tail(b))

RECURSIVE Regroup(_, _, _)
Regroup(b, w, partial) ==
  IF Len(b) >= w
  THEN <<FromBits(SubSeq(b, 1, w))>> \o Regroup(SubSeq(b, w + 1, Len(b)), w, partial)
  ELSE IF partial /\ Len(b) > 0 THEN <<FromBits(b)>> ELSE <<>>

\* changeBase2Inline(src, srcLen, src2Pow, dst2Pow, outputPartialLastByte):
\* the values' bits, lowest first, regrouped dst2Pow at a time
changeBase2Inline(src, src2Pow, dst2Pow, outputPartialLastByte) ==
  Regroup(BitsOf(src, src2Pow), dst2Pow, outputPartialLastByte)

\* B64ToAscii / AsciiToB64 on one value: ",-", digits, upper case, lower case
B64ToAscii(v) ==
  IF v > 37 THEN v + 59 ELSE IF v > 11 THEN v + 53 ELSE IF v > 1 THEN v + 46 ELSE v + 44
AsciiToB64(c) ==
  IF c >= 97 THEN c - 59 ELSE IF c >= 65 THEN c - 53 ELSE IF c >= 48 THEN c - 46 ELSE c - 44

\* B32ToAscii / AsciiToB32 on one value: upper case, then digits from '2'
B32ToAscii(v) == IF v < 26 THEN v + 65 ELSE v + 24
AsciiToB32(c) == IF c >= 65 THEN c - 65 ELSE c - 24

MapSeq(s, Op(_)) == [i \in 1..Len(s) |-> Op(s[i])]

\* NullNameIO::encodeName, decodeName: memcpy, the IV is not used
NullEncodeName(p, iv) == [enc |-> p, iv |-> iv]
NullDecodeName(e, iv) ==
  [res |-> "ok", len |-> Len(e), out |-> e, iv |-> iv, why |-> "none", wrote |-> e]

\* StreamNameIO::encodeName once MAC_16 has returned mac: the low byte of
\* the MAC goes to encodedName[0] twice, encodedName[1] keeps what the
\* caller's buffer held (junk)
StreamEncodeMac(p, iv, mac, junk) ==
  [enc |-> MapSeq(changeBase2Inline(<<mac % 256, junk>> \o nameEncode(p, BitXor(mac, iv)),
                                    8, 6, TRUE),
                  B64ToAscii),
   iv |-> ChainedIV(p, iv)]

\* StreamNameIO::encodeName(plaintextName, length, iv, encodedName, ...)
StreamEncodeName(p, iv, junk) == StreamEncodeMac(p, iv, MAC_16(p, iv), junk)

\* StreamNameIO::decodeName once the name is decrypted: the checksum test
\* (wrote: the bytes plaintextName holds by then, the memcpy of line 112 and
\* the in-place nameDecode come before the test)
StreamDecodeCheck(plain, iv, mac) ==
  IF MAC_16(plain, iv) # mac
  THEN [res |-> "error", len |-> 0, out |-> <<>>, iv |-> ChainedIV(plain, iv),
        why |-> "checksum", wrote |-> plain]
  ELSE [res |-> "ok", len |-> Len(plain), out |-> plain, iv |-> ChainedIV(plain, iv),
        why |-> "none", wrote |-> plain]

\* StreamNameIO::decodeName once tmpBuf holds the bytes
StreamDecodeBuf(tmpBuf, decodedStreamLen, iv) ==
  StreamDecodeCheck(nameDecode(SubSeq(tmpBuf, 3, 2 + decodedStreamLen),
                               BitXor(tmpBuf[1] * 256 + tmpBuf[2], iv)),
                    iv, tmpBuf[1] * 256 + tmpBuf[2])

\* StreamNameIO::decodeName(encodedName, length, iv, plaintextName, ...)
StreamDecodeName(e, iv) ==
  IF B64ToB256Bytes(Len(e)) - 2 <= 0
  THEN [res |-> "error", len |-> 0, out |-> <<>>, iv |-> iv,
        why |-> "small", wrote |-> <<>>]
  ELSE StreamDecodeBuf(changeBase2Inline(MapSeq(e, AsciiToB64), 6, 8, FALSE),
                       B64ToB256Bytes(Len(e)) - 2, iv)

\* the name with its padding: pad value = pad length, a whole block if aligned
Padded(p) ==
  p \o [i \in 1..(NameBs - (Len(p) % NameBs)) |-> NameBs - (Len(p) % NameBs)]

\* BlockNameIO::encodeName once MAC_16 has returned mac
BlockEncodeMac(padded, iv, mac, caseInsensitive) ==
  [enc |-> IF caseInsensitive
           THEN MapSeq(changeBase2Inline(<<(mac \div 256) % 256, mac % 256>>
                                           \o blockEncode(padded, BitXor(mac, iv)),
                                         8, 5, TRUE),
                       B32ToAscii)
           ELSE MapSeq(changeBase2Inline(<<(mac \div 256) % 256, mac % 256>>
                                           \o blockEncode(padded, BitXor(mac, iv)),
                                         8, 6, TRUE),
                       B64ToAscii),
   iv |-> ChainedIV(padded, iv)]

\* BlockNameIO::encodeName(plaintextName, length, iv, encodedName, ...)
BlockEncodeName(p, iv, caseInsensitive) ==
  BlockEncodeMac(Padded(p), iv, MAC_16(Padded(p), iv), caseInsensitive)

\* BlockNameIO::decodeName once the blocks are decrypted: padding, checksum
\* the same with the copy-out moved before the padding test
BlockDecodeCopyFirst(dec, iv, mac) ==
  IF dec[Len(dec)] > NameBs \/ Len(dec) - dec[Len(dec)] < 0
  THEN [res |-> "error", len |-> 0, out |-> <<>>, iv |-> iv,
        why |-> "padding", wrote |-> dec]
  ELSE IF MAC_16(dec, iv) # mac
  THEN [res |-> "error", len |-> 0, out |-> <<>>, iv |-> ChainedIV(dec, iv),
        why |-> "checksum",
        wrote |-> SubSeq(dec, 1, Len(dec) - dec[Len(dec)]) \o <<0>>]
  ELSE [res |-> "ok", len |-> Len(dec) - dec[Len(dec)],
        out |-> SubSeq(dec, 1, Len(dec) - dec[Len(dec)]),
        iv |-> ChainedIV(dec, iv),
        why |-> "none",
        wrote |-> SubSeq(dec, 1, Len(dec) - dec[Len(dec)]) \o <<0>>]

\* (wrote: the name and its NUL, copied out before the checksum is tested)
BlockDecodeCheck(dec, iv, mac) ==
  IF dec[Len(dec)] > NameBs \/ Len(dec) - dec[Len(dec)] < 0
  THEN [res |-> "error", len |-> 0, out |-> <<>>, iv |-> iv,
        why |-> "padding", wrote |-> <<>>]
  ELSE IF MAC_16(dec, iv) # mac
  THEN [res |-> "error", len |-> 0, out |-> <<>>, iv |-> ChainedIV(dec, iv),
        why |-> "checksum",
        wrote |-> SubSeq(dec, 1, Len(dec) - dec[Len(dec)]) \o <<0>>]
  ELSE [res |-> "ok", len |-> Len(dec) - dec[Len(dec)],
        out |-> SubSeq(dec, 1, Len(dec) - dec[Len(dec)]),
        iv |-> ChainedIV(dec, iv),
        why |-> "none",
        wrote |-> SubSeq(dec, 1, Len(dec) - dec[Len(dec)]) \o <<0>>]

\* BlockNameIO::decodeName once tmpBuf holds the bytes
BlockDecodeBuf(tmpBuf, decodedStreamLen, iv) ==
  BlockDecodeCheck(blockDecode(SubSeq(tmpBuf, 3, 2 + decodedStreamLen),
                               BitXor(tmpBuf[1] * 256 + tmpBuf[2], iv)),
                   iv, tmpBuf[1] * 256 + tmpBuf[2])

\* the bytes in 256-base a name of n characters stands for
DecLen256(n, caseInsensitive) ==
  IF caseInsensitive THEN B32ToB256Bytes(n) ELSE B64ToB256Bytes(n)

\* BlockNameIO::decodeName(encodedName, length, iv, plaintextName, ...): the
\* base32 branch fills tmpBuf with AsciiToB32 alone, the base64 branch
\* regroups the bits as well
BlockDecodeName(e, iv, caseInsensitive) ==
  IF DecLen256(Len(e), caseInsensitive) - 2 < NameBs
  THEN [res |-> "error", len |-> 0, out |-> <<>>, iv |-> iv,
        why |-> "small", wrote |-> <<>>]
  ELSE IF caseInsensitive
  THEN BlockDecodeBuf(MapSeq(e, AsciiToB32),
                      DecLen256(Len(e), caseInsensitive) - 2, iv)
  ELSE BlockDecodeBuf(changeBase2Inline(MapSeq(e, AsciiToB64), 6, 8, FALSE),
                      DecLen256(Len(e), caseInsensitive) - 2, iv)

\* encodeName / decodeName of the codec chosen at mount creation
encodeName(codec, p, iv, junk) ==
  IF codec = "Null" THEN NullEncodeName(p, iv)
  ELSE IF codec = "Stream" THEN StreamEncodeName(p, iv, junk)
  ELSE BlockEncodeName(p, iv, codec = "Block32")

decodeName(codec, e, iv) ==
  IF codec = "Null" THEN NullDecodeName(e, iv)
  ELSE IF codec = "Stream" THEN StreamDecodeName(e, iv)
  ELSE BlockDecodeName(e, iv, codec = "Block32")

\* the longest encoded name: base32 of the MAC and a padded name
MaxEnc == B256ToB32Bytes(2 + MaxName + NameBs)

\* what a byte of the caller's buffer can hold before encodeName writes it
JunkBytes == 0..255

\* the caller's plaintextName buffer before decodeName is called: room for
\* the longest decoded stream and its NUL, holding bytes no name is made of
CallerBuf == [i \in 1..(MaxName + NameBs + 1) |-> 255]

InitName ==
  /\ IOIdle /\ RegIdle /\ RenIdle /\ ThrIdle
  /\ \E c \in Codecs, p \in PlainNames, v \in NameIVs :
       nm = [codec |-> c, plain |-> p, iv |-> v, phase |-> "plain",
             enc |-> <<>>, ivEnc |-> v,
             res |-> "none", len |-> 0, out |-> <<>>, ivDec |-> v,
             why |-> "none", buf |-> CallerBuf, given |-> <<>>]

NameFrame == UNCHANGED <<thr, cfg, io, last, nops, grown, reg, ren>>

Encoded(e) ==
  nm' = [nm EXCEPT !.phase = "encoded", !.enc = e.enc, !.ivEnc = e.iv]

EncodeName(junk) ==
  /\ nm.phase = "plain"
  /\ Encoded(encodeName(nm.codec, nm.plain, nm.iv, junk))
  /\ NameFrame

Decoded(d) ==
  nm' = [nm EXCEPT !.phase = "decoded", !.res = d.res, !.len = d.len,
                   !.out = d.out, !.ivDec = d.iv, !.why = d.why,
                   !.buf = Overlay(nm.buf, 0, d.wrote), !.given = nm.enc]

DecodeName ==
  /\ nm.phase = "encoded"
  /\ Decoded(decodeName(nm.codec, nm.enc, nm.iv))
  /\ NameFrame

\* a character both alphabets hold, to put in place of one of the name's,
\* the places it is put (in the MAC, in the name's first bytes), and the
\* lengths the name is cut to (too short to decode, whole)
TamperChars == {65}
TamperAt == {1, 4, 5}
KeepLens == {3, MaxEnc}

\* the name a directory listing hands to decodeName when it is not one the
\* mount wrote: cut to its first keep characters, then the k-th replaced
Tampered(e, keep, k, c) ==
  [i \in 1..Min(keep, Len(e)) |-> IF i = k THEN c ELSE e[i]]

DecodedGiven(d, e) ==
  nm' = [nm EXCEPT !.phase = "rejected", !.res = d.res, !.len = d.len,
                   !.out = d.out, !.ivDec = d.iv, !.why = d.why,
                   !.buf = Overlay(nm.buf, 0, d.wrote), !.given = e]

\* decodeName on a name that is not the one encodeName returned
DecodeTampered(keep, k, c) ==
  /\ nm.phase = "encoded"
  /\ Tampered(nm.enc, keep, k, c) # nm.enc
  /\ DecodedGiven(decodeName(nm.codec, Tampered(nm.enc, keep, k, c), nm.iv),
                  Tampered(nm.enc, keep, k, c))
  /\ NameFrame

NextName ==
  \/ \E junk \in JunkBytes : EncodeName(junk)
  \/ DecodeName
  \/ \E keep \in KeepLens, k \in TamperAt, c \in TamperChars :
       DecodeTampered(keep, k, c)

SpecName == InitName /\ [][NextName]_vars

\* C6: for every codec, every non-empty name P and every chained IV v,
\* decoding the encoded name under v succeeds with length |P| and bytes P,
\* and leaves the chained IV the encode left.
C6_NameRoundTrip ==
  nm.phase = "decoded" =>
    /\ nm.res = "ok"
    /\ nm.len = Len(nm.plain)
    /\ nm.out = nm.plain
    /\ nm.ivDec = nm.ivEnc

\* decodeName has returned by throwing
DecodeFailed == nm.phase \in {"decoded", "rejected"} /\ nm.res = "error"

----------------------------------------------------------------------------
(* Requests against one open file of the cipher layer (CipherFileIO over   *)
(* the backing file, MAC framing off).                                     *)

\* the file IV in the header of a file that exists when the run starts, and
\* the external IV its header is encoded under when IV chaining is on
OldFileIV == 9
ChainIV == 3

\* requests served per run of the cipher layer
CipherOps == 2

\* CipherFileIO::CipherFileIO: haveHeader = uniqueIV; chain: the mount uses
\* external IV chaining, so file nodes call setIV; fresh: the file is new
CipherCfg(hdr, rev, holes, chain, fresh) ==
  [layer |-> "cipher", bs |-> BlockSize, allowHoles |-> holes,
   noCache |-> FALSE, macBytes |-> 0, randBytes |-> 0, forceDecode |-> FALSE,
   haveHeader |-> hdr, reverse |-> rev, chain |-> chain, fresh |-> fresh]

\* the layer after construction (externalIV = ext once the node has told it)
CipherIO(file, ext, draws, ub) ==
  [file |-> file, coff |-> 0, clen |-> 0, cdata |-> <<>>, log |-> <<>>,
   pool |-> <<>>, fw |-> 0, fr |-> 0, fail |-> 0, rnd |-> 0,
   randFail |-> FALSE,
   crash |-> FALSE, fileIV |-> 0, externalIV |-> ext, draws |-> draws,
   ub |-> ub, ivInit |-> FALSE]

\* ciphertext a file can hold when the run starts: zero blocks (holes) and
\* other blocks, whole and partial
ExistingData == {<<7>>, <<0, 0>>, <<0, 0, 7>>}

\* the values randomize delivers: 5; 0 and then 5; none (randomize fails)
DrawChoices == {<<5>>, <<0, 5>>, <<>>}

\* the backing file of an existing file with ciphertext d
Backing(hdr, rev, ext, d) ==
  IF hdr /\ ~rev THEN streamEncode(ToBytesBE(OldFileIV), ext) \o d ELSE d

\* the mounts explored: every forward configuration, and reverse mode with
\* and without per-file headers
CipherConfigs ==
  {c \in [hdr : BOOLEAN, rev : BOOLEAN, holes : BOOLEAN, chain : BOOLEAN] :
     c.rev => (~c.holes) /\ (~c.chain)}

InitCipher ==
  /\ RegIdle /\ RenIdle /\ NmIdle /\ ThrIdle
  /\ last = NoLast /\ nops = 0 /\ grown = NoGrown
  /\ \E c \in CipherConfigs, ub \in BOOLEAN :
       /\ c.rev => ~ub
       /\ \/ /\ cfg = CipherCfg(c.hdr, c.rev, c.holes, c.chain, TRUE)
             /\ \E dr \in DrawChoices : io = CipherIO(<<>>, 0, dr, ub)
          \/ /\ cfg = CipherCfg(c.hdr, c.rev, c.holes, c.chain, FALSE)
             /\ \E d \in ExistingData :
                  io = CipherIO(Backing(c.hdr, c.rev,
                                        IF c.chain THEN ChainIV ELSE 0, d),
                                IF c.chain THEN ChainIV ELSE 0, <<5>>, ub)

\* the state after setIV returned r
SetIVOutcome(r, iv, f, g) ==
  /\ io' = Settled(r.s)
  /\ last' = [op |-> "setIV", off |-> iv, len |-> 0,
              res |-> IF r.res THEN 1 ELSE 0, out |-> <<>>,
              pre |-> Content(io), fault |-> f # 0 \/ g # 0,
              follows |-> FALSE, pre2 |-> <<io.externalIV, io.fileIV>>,
              preBack |-> BaseSize(io), clean |-> FALSE]

\* the file node tells the layer its external IV: setIV(iv)
SetIV(iv, openRes, f, g) ==
  /\ Alive /\ nops < CipherOps
  /\ cfg.chain
  /\ SetIVOutcome(CipherSetIV(Armed(f, g), iv, openRes), iv, f, g)
  /\ nops' = nops + 1
  /\ grown' = NoGrown
  /\ UNCHANGED <<thr, cfg, reg, ren, nm>>

\* the ciphertext block k as the backing file holds it
RawBlock(s, k) ==
  FileSlice(s.file, IF cfg.haveHeader /\ ~cfg.reverse THEN k * B + HEADER_SIZE
                    ELSE k * B, B)

\* the state after readOneBlock returned r
ReadBlockOutcome(r, k, g) ==
  /\ io' = Settled(r.s)
  /\ last' = [op |-> "readOneBlock", off |-> k * B, len |-> B, res |-> r.res,
              out |-> r.data, pre |-> Content(io), fault |-> g # 0,
              follows |-> FALSE, pre2 |-> RawBlock(io, k),
              preBack |-> BaseSize(io), clean |-> FALSE]

\* readOneBlock(offset = k * B, dataLen = B) into a buffer of the caller
ReadOneBlock(k, g) ==
  /\ Alive /\ nops < CipherOps
  /\ ReadBlockOutcome(CipherReadOneBlock(Armed(0, g), k * B, B), k, g)
  /\ nops' = nops + 1
  /\ grown' = NoGrown
  /\ UNCHANGED <<thr, cfg, reg, ren, nm>>

\* a write request through the block engine on the cipher layer
CipherWrite(off, len, f) ==
  /\ nops < CipherOps
  /\ Write(off, len, f)

NextCipher ==
  \/ \E off \in 0..MaxSize, len \in 1..MaxLen, f \in 0..MaxFault :
       CipherWrite(off, len, f)
  \/ \E iv \in {ChainIV, ChainIV + 1}, openRes \in {0, -EISDIR, -EACCES},
        f \in 0..MaxFault, g \in 0..MaxFault :
       SetIV(iv, openRes, f, g)
  \/ \E k \in 0..(MaxSize \div BlockSize), g \in 0..MaxFault : ReadOneBlock(k, g)

SpecCipher == InitCipher /\ [][NextCipher]_vars

\* the plaintext of block k as the backing file holds it: a whole block is
\* block-decoded, a shorter one stream-decoded, both under blockNum ^ fileIV
PlainBlock(s, k) ==
  IF Len(RawBlock(s, k)) = B
  THEN blockDecode(RawBlock(s, k), BitXor(k, s.fileIV))
  ELSE streamDecode(RawBlock(s, k), BitXor(k, s.fileIV))

\* a new file in forward mode with per-file headers, and every request so far
\* was a write that succeeded
OnlyWrites ==
  /\ cfg.layer = "cipher" /\ cfg.fresh /\ cfg.haveHeader /\ ~cfg.reverse
  /\ last.op = "write" /\ last.clean /\ (~last.fault) /\ last.res >= 0
  /\ ~io.crash

\* every writeOneBlock of the last request was passed down HEADER_SIZE
\* bytes further, at HEADER_SIZE + k * B
ShiftedWrites ==
  \A i \in 1..Len(io.log) :
    io.log[i][1] = "w" =>
      /\ io.log[i][2] % B = 0
      /\ \E j \in (i + 1)..Len(io.log) :
           io.log[j] = <<"bw", HEADER_SIZE + io.log[i][2], io.log[i][3]>>

\* the bytes of the last write are in the blocks at HEADER_SIZE + k * B
StoredShifted ==
  \A j \in 0..(last.len - 1) :
    /\ Len(PlainBlock(io, (last.off + j) \div B)) > (last.off + j) % B
    /\ PlainBlock(io, (last.off + j) \div B)[((last.off + j) % B) + 1]
         = Payload(last.len)[j + 1]

\* C11: forward mode, per-file header, no MAC: after successful writes to a
\* file that was empty, a logical size S > 0 means the backing file has
\* S + 8 bytes, bytes [0, 8) are the header (the file IV under the external
\* IV) and logical block k is at backing offset 8 + k * B; S covers the bytes
\* just written; an empty backing file has size 0
C11_HeaderOffsetShift ==
  /\ (cfg.layer = "cipher" /\ cfg.haveHeader /\ (~cfg.reverse)
        /\ BaseSize(io) = 0) => GetSize(io) = 0
  /\ OnlyWrites => GetSize(io) >= last.off + last.len
  /\ (OnlyWrites /\ GetSize(io) > 0) =>
       /\ BaseSize(io) = GetSize(io) + HEADER_SIZE
       /\ io.fileIV # 0
       /\ FileSlice(io.file, 0, HEADER_SIZE)
            = streamEncode(ToBytesBE(io.fileIV), io.externalIV)
       /\ ShiftedWrites
       /\ StoredShifted

\* two successful writes, the second one past the first block
C11_Witness ==
  /\ OnlyWrites /\ GetSize(io) > B /\ nops >= 2 /\ last.off >= B
  /\ \E i \in 1..Len(io.log) : io.log[i][1] = "w"

\* C12: once initHeader has returned success (ivInit), fileIV is not zero in
\* any later state of the layer: after setIV, successful or failed, and
\* after any read or write
C12_FileIVNeverZero ==
  (cfg.layer = "cipher" /\ io.ivInit /\ ~io.crash) => io.fileIV # 0

\* the cipher's decode ran during the last request
DecodeRan ==
  \E i \in 1..Len(io.log) : io.log[i][1] = "decode"

\* C16: forward mode with allowHoles: a read whose ciphertext is all zero, a
\* whole block or a shorter tail, returns zeros of the same length and the
\* cipher's decode is not invoked; ciphertext with a non-zero byte is decoded
C16_HoleShortCircuit ==
  (/\ cfg.layer = "cipher" /\ (~cfg.reverse) /\ cfg.allowHoles
   /\ last.op = "readOneBlock" /\ (~last.fault) /\ (~io.crash)
   /\ Len(last.pre2) > 0)
  => IF AllZero(last.pre2)
     THEN /\ last.res = Len(last.pre2)
          /\ last.out = last.pre2
          /\ ~DecodeRan
     ELSE DecodeRan

\* what a write of plaintext d at block k has to store, and what a read of
\* stored bytes d at block k has to return, under IV = k XOR fileIV: block
\* mode for a whole block, stream mode for a shorter one; forward mode encodes
\* on write and decodes on read, reverse mode the other way round
WriteTransform(d, k) ==
  IF Len(d) = B
  THEN IF cfg.reverse THEN blockDecode(d, BitXor(k, io.fileIV))
       ELSE blockEncode(d, BitXor(k, io.fileIV))
  ELSE IF cfg.reverse THEN streamDecode(d, BitXor(k, io.fileIV))
       ELSE streamEncode(d, BitXor(k, io.fileIV))

ReadTransform(d, k) ==
  IF Len(d) = B
  THEN IF cfg.reverse THEN blockEncode(d, BitXor(k, io.fileIV))
       ELSE blockDecode(d, BitXor(k, io.fileIV))
  ELSE IF cfg.reverse THEN streamEncode(d, BitXor(k, io.fileIV))
       ELSE streamDecode(d, BitXor(k, io.fileIV))

\* the last request was a write of one block, or of a tail, that went down
\* as a single writeOneBlock and succeeded
WroteOneBlock ==
  /\ cfg.layer = "cipher" /\ last.op = "write" /\ (~last.fault) /\ (~io.crash)
  /\ last.res = last.len /\ last.off % B = 0 /\ last.len <= B
  /\ \E i \in 1..Len(io.log) : io.log[i] = <<"w", last.off, last.len>>

\* the last request was a readOneBlock that delivered the bytes of a block or
\* of a tail (a hole that allowHoles passes on undecoded aside)
ReadOneBlockDone ==
  /\ cfg.layer = "cipher" /\ last.op = "readOneBlock" /\ (~last.fault)
  /\ (~io.crash) /\ last.res > 0
  /\ ~(cfg.allowHoles /\ AllZero(last.pre2))

\* C32: in forward mode a write stores the cipher's encoding of the data and
\* a read returns the cipher's decoding of the stored bytes, in block mode
\* for a length of exactly B and in stream mode for a shorter tail, under
\* IV = blockIndex XOR fileIV; in reverse mode read encodes and write decodes.
C32_TransformDirection ==
  /\ WroteOneBlock =>
       Take(RawBlock(io, last.off \div B), last.len)
         = WriteTransform(Payload(last.len), last.off \div B)
  /\ ReadOneBlockDone =>
       /\ last.res = Len(last.pre2)
       /\ last.out = ReadTransform(last.pre2, last.off \div B)

\* no request of the last call reached the backing layer or the cipher
NothingPassedDown ==
  \A i \in 1..Len(io.log) : io.log[i][1] \notin {"bw", "encode", "decode"}

\* C17: reverse mode with per-file headers: a write returns -EPERM, nothing
\* is written to the backing layer, initHeader does not run, and fileIV and
\* externalIV stay as they were
C17_ReverseWriteForbidden ==
  (/\ cfg.layer = "cipher" /\ cfg.reverse /\ cfg.haveHeader
   /\ last.op = "write" /\ ~last.fault)
  => /\ ~io.crash
     /\ last.res = -EPERM
     /\ io.file = last.pre
     /\ NothingPassedDown
     /\ <<io.externalIV, io.fileIV>> = last.pre2

\* C18: whenever setIV(newIV) returns false (the reopen for write failed,
\* initHeader failed or writeHeader failed) externalIV is what it was before
\* the call
C18_SetIVFailureKeepsIV ==
  (cfg.layer = "cipher" /\ last.op = "setIV" /\ last.res = 0 /\ ~io.crash)
  => io.externalIV = last.pre2[1]

\* setIV(newIV) with another IV than the current one got as far as
\* writeHeader, whose write failed
C18_Witness ==
  /\ cfg.layer = "cipher" /\ last.op = "setIV" /\ last.res = 0 /\ ~io.crash
  /\ last.fault /\ io.ivInit /\ io.fileIV = 0
  /\ last.pre2[1] # 0 /\ last.off # last.pre2[1]

\* the reopen for write failed
C18_ReopenFailed ==
  /\ cfg.layer = "cipher" /\ last.op = "setIV" /\ last.res = 0 /\ ~io.crash
  /\ (~last.fault) /\ last.off # last.pre2[1]

----------------------------------------------------------------------------
(* The mount context's unmount bookkeeping (Context.cpp: getRoot, setRoot,  *)
(* usageAndUnmount) next to the open-file registry.                        *)

EBUSY == 16

MaxIdle == 3        \* idle ticks counted per run
MaxUsage == 2       \* root lookups counted between two ticks
MaxTimeout == 2     \* largest timeoutCycles a tick is called with

\* EncFS_Context::EncFS_Context: usageCount = 0, idleCount = -1,
\* isUnmounting = false, no root yet; opts->mountOnDemand as mounted
MountContext(onDemand) ==
  [openFiles |-> EmptyMap, fuseFhMap |-> EmptyMap, currentFuseFh |-> 1,
   nodes |-> <<>>, usageCount |-> 0, idleCount |-> -1,
   isUnmounting |-> FALSE, root |-> FALSE, mountOnDemand |-> onDemand]

\* "if (!skipUsageCount) ++usageCount"
CountUsage(r, skip) == IF skip THEN r ELSE [r EXCEPT !.usageCount = @ + 1]

\* getRoot, the pass of the loop after remountFS returned 0 and set the root
GetRootAgain(r, skip) ==
  IF r.isUnmounting
  THEN [r |-> r, ret |-> FALSE, err |-> -EBUSY, remounts |-> 1]
  ELSE [r |-> CountUsage(r, skip), ret |-> TRUE, err |-> 0, remounts |-> 1]

\* getRoot with no root: remountFS(this) returns 0 (rm) or an error
GetRootRemount(r, skip, rm) ==
  IF ~rm THEN [r |-> r, ret |-> FALSE, err |-> -EIO, remounts |-> 1]
  ELSE GetRootAgain([r EXCEPT !.root = TRUE], skip)

\* getRoot without the isUnmounting test
getRootUnguarded(r, skip, rm) ==
  IF r.root
  THEN [r |-> CountUsage(r, skip), ret |-> TRUE, err |-> 0, remounts |-> 0]
  ELSE GetRootRemount(CountUsage(r, skip), skip, rm)

\* EncFS_Context::getRoot(errCode, skipUsageCount): ret is "a root node is
\* returned", err the value stored in *errCode (0: not stored)
getRoot(r, skip, rm) ==
  IF r.isUnmounting
  THEN [r |-> r, ret |-> FALSE, err |-> -EBUSY, remounts |-> 0]
  ELSE IF r.root
  THEN [r |-> CountUsage(r, skip), ret |-> TRUE, err |-> 0, remounts |-> 0]
  ELSE GetRootRemount(CountUsage(r, skip), skip, rm)

\* usageAndUnmount: "if (usageCount == 0) ++idleCount; else idleCount = 0"
NextIdle(r) == IF r.usageCount = 0 THEN r.idleCount + 1 ELSE 0

\* usageAndUnmount once the counters are updated; unmountFS(this) returns
\* performed
TickCounted(r, timeoutCycles, performed) ==
  IF r.idleCount < timeoutCycles
  THEN [r |-> r, ret |-> FALSE, called |-> FALSE]
  ELSE IF DOMAIN r.openFiles # {}
  THEN [r |-> r, ret |-> FALSE, called |-> FALSE]
  ELSE [r |-> IF ~r.mountOnDemand THEN [r EXCEPT !.isUnmounting = TRUE] ELSE r,
        ret |-> performed, called |-> TRUE]

\* usageAndUnmount that leaves out "if (idleCount < timeoutCycles) return false"
usageAndUnmountNoWait(r, timeoutCycles, performed) ==
  IF r.root
  THEN TickCounted([r EXCEPT !.idleCount = timeoutCycles, !.usageCount = 0],
                   timeoutCycles, performed)
  ELSE [r |-> r, ret |-> FALSE, called |-> FALSE]

\* usageAndUnmount that counts every tick as idle, usage or not
usageAndUnmountNoReset(r, timeoutCycles, performed) ==
  IF r.root
  THEN TickCounted([r EXCEPT !.idleCount = @ + 1, !.usageCount = 0],
                   timeoutCycles, performed)
  ELSE [r |-> r, ret |-> FALSE, called |-> FALSE]

\* EncFS_Context::usageAndUnmount(timeoutCycles)
usageAndUnmount(r, timeoutCycles, performed) ==
  IF r.root
  THEN TickCounted([r EXCEPT !.idleCount = NextIdle(r), !.usageCount = 0],
                   timeoutCycles, performed)
  ELSE [r |-> r, ret |-> FALSE, called |-> FALSE]

InitMount ==
  /\ IOIdle /\ RenIdle /\ NmIdle /\ ThrIdle
  /\ \E onDemand \in BOOLEAN : reg = MountContext(onDemand)

MountFrame == UNCHANGED <<thr, cfg, io, nops, grown, ren, nm>>

\* what a tick or a root lookup leaves behind for the checks
MountCall(op, timeoutCycles, c) ==
  [op |-> op, pre |-> reg, timeout |-> timeoutCycles, ret |-> c.ret,
   err |-> IF op = "getRoot" THEN c.err ELSE 0,
   remounts |-> IF op = "getRoot" THEN c.remounts ELSE 0,
   called |-> IF op = "tick" THEN c.called ELSE FALSE]

\* EncFS_Context::setRoot(r): the mount sets the root, a detach clears it
SetRoot(r) ==
  /\ reg.root # r
  /\ reg' = [reg EXCEPT !.root = r]
  /\ last' = [NoLast EXCEPT !.op = "setRoot"]
  /\ MountFrame

GetRoot(skip, rm) ==
  /\ reg.usageCount < MaxUsage
  /\ reg' = getRoot(reg, skip, rm).r
  /\ last' = MountCall("getRoot", 0, getRoot(reg, skip, rm))
  /\ MountFrame

Tick(timeoutCycles, performed) ==
  /\ reg.idleCount < MaxIdle
  /\ reg' = usageAndUnmount(reg, timeoutCycles, performed).r
  /\ last' = MountCall("tick", timeoutCycles,
                       usageAndUnmount(reg, timeoutCycles, performed))
  /\ MountFrame

\* a file is opened (findOrCreate, putNode) and released (eraseNode)
MountOpen(p) ==
  /\ Len(reg.nodes) < MaxNodes
  /\ reg' = putNode(NewNode(reg, p), p, Len(reg.nodes) + 1)
  /\ last' = [NoLast EXCEPT !.op = "open"]
  /\ MountFrame

MountRelease(p, n) ==
  /\ CanErase(reg, p, n)
  /\ reg' = eraseNode(reg, p, n)
  /\ last' = [NoLast EXCEPT !.op = "release"]
  /\ MountFrame

NextMount ==
  \/ \E r \in BOOLEAN : SetRoot(r)
  \/ \E skip \in BOOLEAN, rm \in BOOLEAN : GetRoot(skip, rm)
  \/ \E t \in 1..MaxTimeout, performed \in BOOLEAN : Tick(t, performed)
  \/ MountOpen(<<"from", "f">>)
  \/ \E n \in 1..Len(reg.nodes) : MountRelease(<<"from", "f">>, n)

SpecMount == InitMount /\ [][NextMount]_vars

\* C13: in every state where isUnmounting is true, getRoot returns no root
\* node and stores -EBUSY in the error code; it does not call remount and
\* does not increment the usage counter
C13_UnmountGuard ==
  (last.op = "getRoot" /\ last.pre.isUnmounting)
  => /\ ~last.ret
     /\ last.err = -EBUSY
     /\ last.remounts = 0
     /\ reg.usageCount = last.pre.usageCount

\* getRoot was called while unmounting, after a detach had cleared the root
C13_Witness ==
  /\ last.op = "getRoot" /\ last.pre.isUnmounting
  /\ ~last.pre.root

\* the tick's unmount condition: the idle counter, after this tick's update,
\* has reached timeoutCycles and no file is open
TickDue ==
  /\ last.pre.root
  /\ NextIdle(last.pre) >= last.timeout
  /\ DOMAIN last.pre.openFiles = {}

\* C14 as stated: the tick marks isUnmounting and invokes the unmount routine
\* only when the idle counter has reached timeoutCycles, no file is open and
\* mount-on-demand is off; in every other case the unmount routine is not
\* invoked and the call returns false
C14_UnmountOnlyIfNotOnDemand ==
  last.op = "tick"
  => /\ last.called => (TickDue /\ ~last.pre.mountOnDemand /\ reg.isUnmounting)
     /\ ~(TickDue /\ ~last.pre.mountOnDemand) => (~last.called /\ ~last.ret)

\* C14 amended: the tick invokes the unmount routine exactly when the idle
\* counter has reached timeoutCycles and no file is open, mount-on-demand on
\* or off; it marks isUnmounting exactly when it invokes the routine with
\* mount-on-demand off; it returns what the unmount routine returns, and
\* false when the routine is not invoked
C14_IdleTickUnmount ==
  last.op = "tick"
  => /\ last.called = TickDue
     /\ reg.isUnmounting
          = (last.pre.isUnmounting \/ (TickDue /\ ~last.pre.mountOnDemand))
     /\ (~last.called) => ~last.ret
     /\ reg.idleCount = (IF last.pre.root THEN NextIdle(last.pre)
                         ELSE last.pre.idleCount)

\* a tick invoked the unmount routine with mount-on-demand on, after an
\* earlier tick that was below the timeout
C14_Witness ==
  /\ last.op = "tick" /\ last.called /\ last.pre.mountOnDemand
  /\ last.ret /\ (~reg.isUnmounting) /\ last.pre.idleCount >= 0

----------------------------------------------------------------------------
(* Idle counting over the ticks of one mount: timeoutCycles is fixed, and   *)
(* the record of the last call carries what the ticks so far have seen.     *)

\* the tick counters stop counting here
TickCap == MaxTimeout + 2

\* no call yet; used: a root lookup was counted since the last tick;
\* idleRun: the last ticks in a row with no counted lookup in their interval;
\* run: the last ticks in a row with no getRoot call since and no open file,
\* fired: one of them invoked the unmount routine; runRoot, firedRoot: the
\* same for ticks that met a root; sawUsage: a tick has observed usage
NoTicks(t) ==
  [op |-> "none", pre |-> MountContext(FALSE), timeout |-> t, ret |-> FALSE,
   called |-> FALSE, used |-> FALSE, idleRun |-> 0, run |-> 0,
   fired |-> FALSE, runRoot |-> 0, firedRoot |-> FALSE, sawUsage |-> FALSE]

InitIdle ==
  /\ cfg = PlainCfg(FALSE, FALSE) /\ io = IdleIO /\ nops = 0 /\ grown = NoGrown
  /\ RenIdle /\ NmIdle /\ ThrIdle
  /\ \E onDemand \in BOOLEAN : reg = MountContext(onDemand)
  /\ \E t \in 1..MaxTimeout : last = NoTicks(t)

IdleFrame == UNCHANGED <<thr, cfg, io, nops, grown, ren, nm>>

\* the quiet runs start again
Restarted(h) ==
  [h EXCEPT !.run = 0, !.fired = FALSE, !.runRoot = 0, !.firedRoot = FALSE]

IdleSetRoot(r) ==
  /\ reg.root # r
  /\ reg' = [reg EXCEPT !.root = r]
  /\ last' = [last EXCEPT !.op = "setRoot", !.pre = reg, !.called = FALSE]
  /\ IdleFrame

\* the state after getRoot returned g
GotRoot(g) ==
  /\ reg' = g.r
  /\ last' = [Restarted(last) EXCEPT
                !.op = "getRoot", !.pre = reg, !.called = FALSE,
                !.ret = g.ret,
                !.used = @ \/ g.r.usageCount > reg.usageCount]

IdleGetRoot(skip, rm) ==
  /\ reg.usageCount < MaxUsage
  /\ GotRoot(getRoot(reg, skip, rm))
  /\ IdleFrame

\* the state after usageAndUnmount returned x
Ticked(x) ==
  /\ reg' = x.r
  /\ last' = [last EXCEPT
                !.op = "tick", !.pre = reg, !.called = x.called,
                !.ret = x.ret, !.used = FALSE,
                !.idleRun = IF last.used THEN 0 ELSE Min(@ + 1, TickCap),
                !.run = IF DOMAIN reg.openFiles = {}
                        THEN Min(@ + 1, TickCap) ELSE 0,
                !.fired = DOMAIN reg.openFiles = {} /\ (@ \/ x.called),
                !.runRoot = IF DOMAIN reg.openFiles = {} /\ reg.root
                            THEN Min(@ + 1, TickCap) ELSE 0,
                !.firedRoot = /\ DOMAIN reg.openFiles = {} /\ reg.root
                              /\ (@ \/ x.called),
                !.sawUsage = @ \/ (reg.root /\ reg.usageCount > 0)]

\* the idle monitor calls usageAndUnmount(timeoutCycles)
IdleTick(performed) ==
  /\ reg.idleCount < MaxIdle
  /\ Ticked(usageAndUnmount(reg, last.timeout, performed))
  /\ IdleFrame

IdleOpen(p) ==
  /\ Len(reg.nodes) < MaxNodes
  /\ reg' = putNode(NewNode(reg, p), p, Len(reg.nodes) + 1)
  /\ last' = [Restarted(last) EXCEPT !.op = "open", !.pre = reg,
                                     !.called = FALSE]
  /\ IdleFrame

IdleRelease(p, n) ==
  /\ CanErase(reg, p, n)
  /\ reg' = eraseNode(reg, p, n)
  /\ last' = [last EXCEPT !.op = "release", !.pre = reg, !.called = FALSE]
  /\ IdleFrame

NextIdleMount ==
  \/ \E r \in BOOLEAN : IdleSetRoot(r)
  \/ \E skip \in BOOLEAN, rm \in BOOLEAN : IdleGetRoot(skip, rm)
  \/ \E performed \in BOOLEAN : IdleTick(performed)
  \/ IdleOpen(<<"from", "f">>)
  \/ \E n \in 1..Len(reg.nodes) : IdleRelease(<<"from", "f">>, n)

SpecIdle == InitIdle /\ [][NextIdleMount]_vars

\* the unmount routine is invoked only after timeoutCycles tick intervals in
\* a row without a counted root lookup
UnmountOnlyWhenIdle ==
  (last.op = "tick" /\ last.called) => last.idleRun >= last.timeout

\* a tick that observes usage resets the idle counter, and every tick with a
\* root resets the usage counter
TickResets ==
  (last.op = "tick" /\ last.pre.root) =>
    /\ reg.usageCount = 0
    /\ last.pre.usageCount > 0 => reg.idleCount = 0

\* C36 as stated: for timeoutCycles >= 1 the unmount routine is invoked at a
\* tick only if no counted getRoot call happened in that tick interval nor
\* in the timeoutCycles - 1 intervals before it; a tick that observes usage
\* resets the idle counter and every tick with a root resets usageCount; and
\* once there is no getRoot call and no open file from some tick on, the
\* unmount routine is invoked within timeoutCycles + 1 further ticks.
C36_IdleCounting ==
  /\ UnmountOnlyWhenIdle
  /\ TickResets
  /\ last.run >= last.timeout + 2 => last.fired

\* C36 for a mount that has its root: the same, the last part for ticks that
\* meet a non-null root (a tick without a root counts nothing).
C36_IdleCountingWithRoot ==
  /\ UnmountOnlyWhenIdle
  /\ TickResets
  /\ last.runRoot >= last.timeout + 1 => last.firedRoot

\* after a tick that observed usage, the unmount routine is invoked at the
\* tick that completes timeoutCycles idle intervals
C36_Witness ==
  /\ last.op = "tick" /\ last.called /\ last.sawUsage
  /\ last.timeout = MaxTimeout /\ last.runRoot = last.timeout + 1
  /\ last.pre.idleCount = last.timeout - 1

----------------------------------------------------------------------------
(* Handle ids under concurrent node creation (Context.cpp: nextFuseFh;      *)
(* DirNode.cpp: lookupNode, openNode, findOrCreate).                        *)

NThreads == 3       \* threads that look up or open files
MaxIds == 4         \* handle ids handed out per run

NoThread == 0

\* the context of a mount with its one directory node: lock is the holder
\* of the DirNode mutex, issued the handle ids of the nodes created so far
IdsContext ==
  [openFiles |-> EmptyMap, fuseFhMap |-> EmptyMap, currentFuseFh |-> 1,
   nodes |-> <<>>, lock |-> NoThread, issued |-> <<>>]

\* a thread outside DirNode
IdleThread == [pc |-> "idle", fh |-> 0]

\* a Lock that does not wait for the mutex
MutexIgnored(r) == TRUE

\* "Lock _lock(mutex)" can return: nobody holds the DirNode mutex
MutexFree(r) == r.lock = NoThread

InitIds ==
  /\ IOIdle /\ RenIdle /\ NmIdle
  /\ reg = IdsContext
  /\ thr = [t \in 1..NThreads |-> IdleThread]

IdsFrame == UNCHANGED <<cfg, io, last, nops, grown, ren, nm>>

\* a thread calls DirNode::lookupNode or DirNode::openNode for a path that
\* has no node yet
CallLookup(t) ==
  /\ thr[t].pc = "idle"
  /\ Len(reg.issued) + Cardinality({u \in 1..NThreads : thr[u].pc # "idle"})
       < MaxIds
  /\ thr' = [thr EXCEPT ![t].pc = "lock"]
  /\ UNCHANGED reg
  /\ IdsFrame

\* Lock _lock(mutex)
AcquireMutex(t) ==
  /\ thr[t].pc = "lock"
  /\ MutexFree(reg)
  /\ reg' = [reg EXCEPT !.lock = t]
  /\ thr' = [thr EXCEPT ![t].pc = "read"]
  /\ IdsFrame

\* nextFuseFh: "return currentFuseFh++" reads the counter ...
ReadFuseFh(t) ==
  /\ thr[t].pc = "read"
  /\ thr' = [thr EXCEPT ![t].pc = "write", ![t].fh = reg.currentFuseFh]
  /\ UNCHANGED reg
  /\ IdsFrame

\* ... and stores the value read plus one; findOrCreate builds the node with
\* the value read
WriteFuseFh(t) ==
  /\ thr[t].pc = "write"
  /\ reg' = [reg EXCEPT !.currentFuseFh = thr[t].fh + 1,
                        !.issued = Append(@, thr[t].fh)]
  /\ thr' = [thr EXCEPT ![t].pc = "unlock"]
  /\ IdsFrame

\* ~Lock at the end of lookupNode / openNode
ReleaseMutex(t) ==
  /\ thr[t].pc = "unlock"
  /\ reg' = [reg EXCEPT !.lock = IF @ = t THEN NoThread ELSE @]
  /\ thr' = [thr EXCEPT ![t] = IdleThread]
  /\ IdsFrame

NextIds ==
  \/ \E t \in 1..NThreads : CallLookup(t)
  \/ \E t \in 1..NThreads : AcquireMutex(t)
  \/ \E t \in 1..NThreads : ReadFuseFh(t)
  \/ \E t \in 1..NThreads : WriteFuseFh(t)
  \/ \E t \in 1..NThreads : ReleaseMutex(t)

SpecIds == InitIds /\ [][NextIds]_vars

\* C15: under any interleaving of node creations by several threads, each
\* handle id handed out is greater than every id handed out before it, so no
\* two file nodes carry the same id
C15_HandleIdsIncrease ==
  reg.issued # <<>> =>
    \A i \in 1..Len(reg.issued), k \in 1..Len(reg.issued) :
      i < k => reg.issued[i] < reg.issued[k]

\* two ids were handed out and a thread is waiting while another one is
\* inside nextFuseFh
C15_Witness ==
  /\ Len(reg.issued) >= 2
  /\ \E t \in 1..NThreads, u \in 1..NThreads :
       t # u /\ thr[t].pc = "lock" /\ thr[u].pc = "write"

----------------------------------------------------------------------------
(* The identity override of mkdir and mknod (DirNode.cpp: DirNode::mkdir;   *)
(* FileNode.cpp: FileNode::mknod).                                         *)

MaxUid == 2         \* user and group ids are 0..MaxUid

\* setfsgid(gid) / setfsuid(uid): the new value is set and the old one
\* returned, or the call fails, changes nothing and returns -1
setfsgid(t, gid, ok) ==
  IF ok THEN [t |-> [t EXCEPT !.fsgid = gid], old |-> t.fsgid]
  ELSE [t |-> t, old |-> -1]

setfsuid(t, uid, ok) ==
  IF ok THEN [t |-> [t EXCEPT !.fsuid = uid], old |-> t.fsuid]
  ELSE [t |-> t, old |-> -1]

\* "if (oldgid >= 0) setfsgid(oldgid)"
RestoreGid(t, oldgid) ==
  IF oldgid >= 0 THEN setfsgid(t, oldgid, TRUE).t ELSE t

\* "if (olduid >= 0) setfsuid(olduid)", then the group id
RestoreIds(t, olduid, oldgid) ==
  RestoreGid(IF olduid >= 0 THEN setfsuid(t, olduid, TRUE).t ELSE t, oldgid)

\* the backing call (::mkdir, ::open, ::mkfifo, ::mknod) returned callRes,
\* then both ids are set back
MakeAndRestore(t, olduid, oldgid, callRes) ==
  [t |-> RestoreIds(t, olduid, oldgid), res |-> callRes]

\* mkdir and mknod after setfsuid returned u: "if (olduid = -1)" assigns, so
\* the branch is always taken
UidSetAssigned(u, oldgid, callRes) ==
  [t |-> u.t, res |-> -EPERM]

\* the user id part: "if (uid != 0) { olduid = setfsuid(uid); ... }"
OverrideUid(t, uid, uidOK, oldgid, callRes) ==
  IF uid # 0 THEN UidSetAssigned(setfsuid(t, uid, uidOK), oldgid, callRes)
  ELSE MakeAndRestore(t, -1, oldgid, callRes)

\* DirNode::mkdir after setfsgid returned g: "if (oldgid = -1)" assigns
MkdirGidSet(g, uid, uidOK, callRes) ==
  [t |-> g.t, res |-> -EPERM]

\* DirNode::mkdir(plaintextPath, mode, uid, gid)
mkdir(t, uid, gid, uidOK, gidOK, callRes) ==
  IF gid # 0 THEN MkdirGidSet(setfsgid(t, gid, gidOK), uid, uidOK, callRes)
  ELSE OverrideUid(t, uid, uidOK, -1, callRes)

\* FileNode::mknod after setfsgid returned g: "if (oldgid == -1)"
MknodGidSet(g, uid, uidOK, callRes) ==
  IF g.old = -1 THEN [t |-> g.t, res |-> -EPERM]
  ELSE OverrideUid(g.t, uid, uidOK, g.old, callRes)

\* FileNode::mknod(mode, rdev, uid, gid)
mknod(t, uid, gid, uidOK, gidOK, callRes) ==
  IF gid # 0 THEN MknodGidSet(setfsgid(t, gid, gidOK), uid, uidOK, callRes)
  ELSE OverrideUid(t, uid, uidOK, -1, callRes)

InitIdentity ==
  /\ IOIdle /\ RegIdle /\ RenIdle /\ NmIdle
  /\ \E u \in 0..MaxUid, g \in 0..MaxUid : thr = [fsuid |-> u, fsgid |-> g]

IdentityFrame == UNCHANGED <<cfg, io, nops, grown, reg, ren, nm>>

\* what a call leaves behind for the checks
IdentityCall(op, uid, gid, uidOK, gidOK, c) ==
  [op |-> op, pre |-> thr, uid |-> uid, gid |-> gid, uidOK |-> uidOK,
   gidOK |-> gidOK, res |-> c.res]

Mkdir(uid, gid, uidOK, gidOK, callRes) ==
  /\ thr' = mkdir(thr, uid, gid, uidOK, gidOK, callRes).t
  /\ last' = IdentityCall("mkdir", uid, gid, uidOK, gidOK,
                          mkdir(thr, uid, gid, uidOK, gidOK, callRes))
  /\ IdentityFrame

Mknod(uid, gid, uidOK, gidOK, callRes) ==
  /\ thr' = mknod(thr, uid, gid, uidOK, gidOK, callRes).t
  /\ last' = IdentityCall("mknod", uid, gid, uidOK, gidOK,
                          mknod(thr, uid, gid, uidOK, gidOK, callRes))
  /\ IdentityFrame

NextIdentity ==
  \/ \E uid \in 0..MaxUid, gid \in 0..MaxUid, uidOK \in BOOLEAN,
        gidOK \in BOOLEAN, callRes \in {0, -EACCES} :
       Mkdir(uid, gid, uidOK, gidOK, callRes)
  \/ \E uid \in 0..MaxUid, gid \in 0..MaxUid, uidOK \in BOOLEAN,
        gidOK \in BOOLEAN, callRes \in {0, -EACCES} :
       Mknod(uid, gid, uidOK, gidOK, callRes)

SpecIdentity == InitIdentity /\ [][NextIdentity]_vars

\* C19: for every call of mkdir and mknod with any uid and gid, on every
\* exit path (success, backing call failed, setfsgid failed, setfsuid failed
\* after setfsgid succeeded) the thread's fsuid and fsgid at return are what
\* they were at entry
C19_IdentityRestored ==
  last.op \in {"mkdir", "mknod"}
  => /\ thr.fsuid = last.pre.fsuid
     /\ thr.fsgid = last.pre.fsgid

----------------------------------------------------------------------------
(* The rename planner (DirNode.cpp: genRenameList, newRenameOp).            *)

MaxFaulty == 1      \* entries of the tree that fail (to open, decode, encode)

\* what can lie below the directory that is renamed, in readdir order: files
\* f, g, h and directories s, d
TreeUniverse ==
  <<<<"f">>, <<"s">>, <<"s", "g">>, <<"s", "d">>, <<"s", "d", "h">>>>

TreeDirs == {<<>>, <<"s">>, <<"s", "d">>}

\* the directory trees explored: every entry has its parent in the tree
Trees ==
  {t \in SUBSET Range(TreeUniverse) :
     \A p \in t : Len(p) = 1 \/ SubSeq(p, 1, Len(p) - 1) \in t}

\* the entries readdir delivers for directory p
ChildrenSeq(t, p) ==
  LET IsChild(q) == q \in t.entries /\ Len(q) = Len(p) + 1 /\ IsPrefix(p, q)
  IN SelectSeq(TreeUniverse, IsChild)

RECURSIVE genRenameList(_, _, _)
RECURSIVE GenEntries(_, _, _)

\* genRenameList after the recursion into directory k returned sub:
\* "if (genRenameList(...)) return false", else the entry is appended
GenRecursed(t, kids, sub) ==
  IF sub.ok THEN [ok |-> FALSE, list |-> sub.list]
  ELSE GenEntries(t, Tail(kids), Append(sub.list, RenameEl(Head(kids), TRUE)))

\* the readdir loop over the entries kids still to come
GenEntries(t, kids, list) ==
  IF kids = <<>> THEN [ok |-> TRUE, list |-> list]
  ELSE IF Head(kids) \in t.undecodable THEN GenEntries(t, Tail(kids), list)
  ELSE IF Head(kids) \in t.unencodable THEN [ok |-> FALSE, list |-> list]
  ELSE IF Head(kids) \in TreeDirs
  THEN GenRecursed(t, kids, genRenameList(t, Head(kids), list))
  ELSE GenEntries(t, Tail(kids), Append(list, RenameEl(Head(kids), FALSE)))

\* DirNode::genRenameList(renameList, fromP, toP) for the directory at p
genRenameList(t, p, list) ==
  IF t.sameIV THEN [ok |-> TRUE, list |-> list]
  ELSE IF p \in t.unopenable THEN [ok |-> FALSE, list |-> list]
  ELSE GenEntries(t, ChildrenSeq(t, p), list)

\* DirNode::newRenameOp(fromP, toP): no RenameOp unless the list was built
newRenameOp(t) == genRenameList(t, <<>>, <<>>)

\* the ciphertext names on disk: the directory and the tree below it
TreeNames(entries) ==
  {EncodePath(<<"from">>)} \cup {EncodePath(<<"from">> \o p) : p \in entries}

InitGenList ==
  /\ IOIdle /\ RegIdle /\ NmIdle /\ ThrIdle
  /\ \E entries \in Trees, same \in BOOLEAN,
        bad \in SUBSET (Range(TreeUniverse) \cup {<<>>}),
        kind \in {"open", "decode", "encode"} :
       /\ Cardinality(bad) <= MaxFaulty
       /\ bad \subseteq entries \cup {<<>>}
       /\ kind = "open" => bad \subseteq TreeDirs
       /\ kind # "open" => <<>> \notin bad
       /\ ren = [phase |-> "plan",
                 tree |-> [entries |-> entries, sameIV |-> same,
                           unopenable |-> IF kind = "open" THEN bad ELSE {},
                           undecodable |-> IF kind = "decode" THEN bad ELSE {},
                           unencodable |-> IF kind = "encode" THEN bad ELSE {}],
                 ok |-> TRUE, list |-> <<>>,
                 names |-> TreeNames(entries), renamed |-> 0, log |-> <<>>]

GenListFrame == UNCHANGED <<thr, cfg, io, last, nops, grown, reg, nm>>

ApplyFrame == UNCHANGED <<thr, cfg, io, last, nops, grown, nm>>

RECURSIVE ApplyList(_, _, _)

\* RenameOp::apply on the planned list after ::rename of entry idx
ApplyListBacking(b, list, idx) ==
  IF ~b.ok
  THEN [w |-> DirRenameNode(b.w, list[idx + 1].newPName, list[idx + 1].oldPName,
                            FALSE, TRUE, TRUE).w,
        last |-> idx, ok |-> FALSE]
  ELSE ApplyList(b.w, list, idx + 1)

\* RenameOp::apply on the planned list, the loop from entry idx (from 0)
ApplyList(w, list, idx) ==
  IF idx = Len(list) THEN [w |-> w, last |-> idx, ok |-> TRUE]
  ELSE ApplyListBacking(
         SysRename(DirRenameNode(w, list[idx + 1].oldPName,
                                 list[idx + 1].newPName, TRUE, TRUE, TRUE).w,
                   list[idx + 1].oldCName, list[idx + 1].newCName, FALSE),
         list, idx)

ListApplied(a) ==
  /\ reg' = a.w.r
  /\ ren' = [ren EXCEPT !.phase = IF a.ok THEN "listApplied" ELSE "listFailed",
                        !.names = a.w.names, !.renamed = a.last,
                        !.log = a.w.log]

\* DirNode::rename got a RenameOp and calls apply() on it
ApplyPlanned ==
  /\ ren.phase = "planned" /\ ren.ok
  /\ ListApplied(ApplyList(Work(reg, ren.names, FALSE), ren.list, 0))
  /\ ApplyFrame

\* DirNode::rename asks for the RenameOp of a directory
NewRenameOp ==
  /\ ren.phase = "plan"
  /\ ren' = [ren EXCEPT !.phase = "planned",
                        !.ok = newRenameOp(ren.tree).ok,
                        !.list = newRenameOp(ren.tree).list]
  /\ GenListFrame

NextGenList == NewRenameOp \/ ApplyPlanned

SpecGenList == InitGenList /\ [][NextGenList]_vars

\* the list names every entry of the tree once
CoversTree ==
  /\ Len(ren.list) = Cardinality(ren.tree.entries)
  /\ \A p \in ren.tree.entries :
       \E i \in 1..Len(ren.list) : ren.list[i] = RenameEl(p, p \in TreeDirs)

\* C20: when fromIV # toIV and every entry below the source directory decodes
\* under fromIV and re-encodes under toIV, genRenameList returns success and
\* the list has exactly one entry per descendant at every depth; it returns
\* failure only when a directory cannot be opened or an entry cannot be
\* re-encoded
C20_ListCoversSubtree ==
  (/\ ren.phase = "planned" /\ ~ren.tree.sameIV
   /\ ren.tree.undecodable = {} /\ ren.tree.unencodable = {})
  => /\ ren.tree.unopenable = {} => (ren.ok /\ CoversTree)
     /\ (~ren.ok) => ren.tree.unopenable # {}

\* the parent of a path
ParentOf(p) == SubSeq(p, 1, Len(p) - 1)

\* in the list, what lies below a directory comes before the directory
DescendantsFirst(list) ==
  \A i \in 1..Len(list), j \in 1..Len(list) :
    (/\ i # j /\ list[i].isDirectory
     /\ IsPrefix(list[i].oldPName, list[j].oldPName)) => j < i

\* both ciphertext names of an entry lie under the old names of its ancestors
UnderAncestors(list) ==
  \A i \in 1..Len(list) :
    /\ ParentOf(list[i].oldCName) = EncodePath(ParentOf(list[i].oldPName))
    /\ ParentOf(list[i].newCName) = EncodePath(ParentOf(list[i].oldPName))

\* the list has an entry for every item of the tree below a directory it
\* names, ahead of the directory's own entry
DescendantsListed(list, entries) ==
  \A i \in 1..Len(list), p \in entries :
    (/\ list[i].isDirectory
     /\ IsPrefix(list[i].oldPName, <<"from">> \o p)
     /\ list[i].oldPName # <<"from">> \o p)
    => \E j \in 1..(i - 1) : list[j].oldPName = <<"from">> \o p

\* C37: in every list genRenameList produces the entries for all descendants
\* of a directory come before the entry of the directory, every entry's old
\* and new ciphertext paths lie under the old ciphertext names of its
\* ancestors, and RenameOp::apply, going through the list front to back,
\* finds every entry's old path in place when it renames it
C37_ListOrder ==
  /\ ren.phase # "plan" => DescendantsFirst(ren.list) /\ UnderAncestors(ren.list)
  /\ (ren.phase # "plan" /\ ren.ok /\ ren.tree.undecodable = {}) =>
       DescendantsListed(ren.list, ren.tree.entries)
  /\ ren.phase # "listFailed"
  /\ ren.phase = "listApplied" => ren.renamed = Len(ren.list)

----------------------------------------------------------------------------
(* DirNode::rename (DirNode.cpp), whole: the planner, RenameOp::apply, the  *)
(* node and registry rename, the backing rename and the way back.          *)

\* what lies below the directory "from" when it is renamed
FromTree ==
  [entries |-> {<<"f">>, <<"s">>, <<"s", "g">>}, sameIV |-> FALSE,
   unopenable |-> {}, undecodable |-> {}, unencodable |-> {}]

\* the two renames explored: the directory "from" to "to", and the file
\* from/s/g onto from/f
RenameFrom(isDir) == IF isDir THEN <<"from">> ELSE <<"from", "s", "g">>
RenameTo(isDir) == IF isDir THEN <<"to">> ELSE <<"from", "f">>

\* rename after renameNode(to, from, false) returned d: an error thrown there
\* is caught at the end (-EIO) and skips renameOp->undo()
RenameReverted(d, hasOp, undoOK) ==
  IF ~d.ok THEN [w |-> d.w, res |-> -EIO]
  ELSE [w |-> IF hasOp THEN undo(d.w, Len(RenameList), undoOK) ELSE d.w,
        res |-> -EPERM]

\* rename after ::rename(fromCName, toCName) returned b (res = -errno)
RenameBacked(b, isDir, hasOp, undoOK) ==
  IF b.ok THEN [w |-> b.w, res |-> 0]
  ELSE RenameReverted(DirRenameNode(b.w, RenameTo(isDir), RenameFrom(isDir),
                                    FALSE, TRUE, setIV(isDir, undoOK)),
                      hasOp, undoOK)

\* rename after renameNode(from, to) returned d
RenameNamed(d, isDir, hasOp, topFail, undoOK) ==
  IF ~d.ok THEN [w |-> d.w, res |-> -EIO]
  ELSE RenameBacked(SysRename(d.w, EncodePath(RenameFrom(isDir)),
                              EncodePath(RenameTo(isDir)), topFail),
                    isDir, hasOp, undoOK)

\* the part of rename inside "try"
RenameTop(w, isDir, hasOp, fwdOK, topFail, undoOK) ==
  RenameNamed(DirRenameNode(w, RenameFrom(isDir), RenameTo(isDir), TRUE, TRUE,
                            setIV(isDir, fwdOK)),
              isDir, hasOp, topFail, undoOK)

\* rename after renameOp->apply() returned a
RenameApplied(a, fwdOK, topFail, undoOK) ==
  IF ~a.ok THEN [w |-> undo(a.w, a.last, undoOK), res |-> -EACCES]
  ELSE RenameTop(a.w, TRUE, TRUE, fwdOK, topFail, undoOK)

\* rename of a directory (names depend on the directory's name): no
\* RenameOp, or one that fails, ends in -EACCES
RenameRecursive(w, failAt, kind, fwdOK, topFail, undoOK) ==
  IF newRenameOp(FromTree).ok
  THEN RenameApplied(apply(w, failAt, kind), fwdOK, topFail, undoOK)
  ELSE [w |-> w, res |-> -EACCES]

\* DirNode::rename(fromPlaintext, toPlaintext); [w, res]
DirRename(w, isDir, failAt, kind, fwdOK, topFail, undoOK) ==
  IF isDir
  THEN RenameRecursive([w EXCEPT !.r = findOrCreate(@, RenameTo(isDir))],
                       failAt, kind, fwdOK, topFail, undoOK)
  ELSE RenameTop([w EXCEPT !.r = findOrCreate(@, RenameTo(isDir))],
                 FALSE, FALSE, fwdOK, topFail, undoOK)

\* the state after rename returned x
DirRenameDone(x, isDir) ==
  /\ reg' = x.w.r
  /\ ren' = [phase |-> "renamed", extIV |-> ren.extIV, names |-> x.w.names,
             res |-> x.res, log |-> x.w.log, isDir |-> isDir,
             orig |-> [openFiles |-> reg.openFiles, names |-> ren.names,
                       nodes |-> reg.nodes]]

DirRenameCall(isDir, failAt, kind, fwdOK, topFail, undoOK) ==
  /\ ren.phase = "ready"
  /\ DirRenameDone(DirRename(Work(reg, ren.names, ren.extIV), isDir, failAt,
                             kind, fwdOK, topFail, undoOK),
                   isDir)
  /\ RenFrame

NextDirRename ==
  \/ \E p \in Paths : Open(p)
  \/ \E isDir \in BOOLEAN, failAt \in 0..Len(RenameList), kind \in FailKinds,
        fwdOK \in BOOLEAN, topFail \in BOOLEAN, undoOK \in BOOLEAN :
       DirRenameCall(isDir, failAt, kind, fwdOK, topFail, undoOK)

SpecDirRename == InitRename /\ [][NextDirRename]_vars

\* the names the registered file nodes hold are the ones from before the call
NodeNamesKept ==
  \A n \in 1..Len(ren.orig.nodes) :
    /\ reg.nodes[n].pname = ren.orig.nodes[n].pname
    /\ reg.nodes[n].cname = ren.orig.nodes[n].cname

\* C34: whenever DirNode::rename returns a non-zero result, the backing
\* ciphertext names, the registry's path keys with their lists (a list
\* registered at the destination path included) and the plaintext and
\* ciphertext names stored in the file nodes all equal their values before
\* the call.
C34_FailedRenameRestores ==
  (ren.phase = "renamed" /\ ren.res # 0) =>
    /\ ren.names = ren.orig.names
    /\ reg.openFiles = ren.orig.openFiles
    /\ NodeNamesKept

----------------------------------------------------------------------------
(* One FileNode used by several threads (FileNode.cpp): the node mutex,    *)
(* the operations that take it and setName.                                *)

NodeThreads == 2    \* threads that use the node
MaxNodeCalls == 3   \* calls made on the node per run

\* the operations of FileNode that begin with "Lock _lock(mutex)"
LockedOps == {"open", "getAttr", "getSize", "read", "write", "truncate", "sync"}

\* the names a rename gives the node
NodeNames == {"a", "b"}

\* the node after FileNode::FileNode: lock is the holder of its mutex,
\* calls the calls made so far
NodeIdle == [lock |-> NoThread, pname |-> "a", cname |-> "a", calls |-> 0]

\* a thread outside the node
OutsideNode ==
  [pc |-> "idle", op |-> "none", pname |-> "", cname |-> "",
   toP |-> "", ivFirst |-> FALSE, chain |-> FALSE, ivOK |-> FALSE]

InitNode ==
  /\ IOIdle /\ RenIdle /\ NmIdle
  /\ reg = NodeIdle
  /\ thr = [t \in 1..NodeThreads |-> OutsideNode]

NodeFrame == UNCHANGED <<cfg, io, last, nops, grown, ren, nm>>

\* a thread calls one of open, getAttr, getSize, read, write, truncate, sync
NodeCall(t, op) ==
  /\ thr[t].pc = "idle"
  /\ reg.calls < MaxNodeCalls
  /\ thr' = [thr EXCEPT ![t].pc = "lock", ![t].op = op]
  /\ reg' = [reg EXCEPT !.calls = @ + 1]
  /\ NodeFrame

\* "Lock _lock(mutex)" returns: the thread is in the operation's body and
\* has the names the node carries
NodeLock(t) ==
  /\ thr[t].pc = "lock"
  /\ reg.lock = NoThread
  /\ reg' = [reg EXCEPT !.lock = t]
  /\ thr' = [thr EXCEPT ![t].pc = "body", ![t].pname = reg.pname,
                        ![t].cname = reg.cname]
  /\ NodeFrame

\* the io call of the body returns and the Lock goes out of scope
NodeReturn(t) ==
  /\ thr[t].pc = "body"
  /\ reg' = [reg EXCEPT !.lock = IF @ = t THEN NoThread ELSE @]
  /\ thr' = [thr EXCEPT ![t] = OutsideNode]
  /\ NodeFrame

\* DirNode::renameNode calls node->setName(to, cname, newIV, forwardMode):
\* setName takes no lock, the thread is in its body at once
SetNameCall(t, toP, setIVFirst, chain, ivOK) ==
  /\ thr[t].pc = "idle"
  /\ reg.calls < MaxNodeCalls
  /\ thr' = [thr EXCEPT ![t].pc = "setName", ![t].op = "setName",
                        ![t].toP = toP, ![t].ivFirst = setIVFirst,
                        ![t].chain = chain, ![t].ivOK = ivOK]
  /\ reg' = [reg EXCEPT !.calls = @ + 1]
  /\ NodeFrame

\* the body of setName stores the names and returns
SetNameReturn(t) ==
  /\ thr[t].pc = "setName"
  /\ reg' = setName(reg, thr[t].toP, thr[t].toP, thr[t].ivOK,
                    thr[t].ivFirst, thr[t].chain).nd
  /\ thr' = [thr EXCEPT ![t] = OutsideNode]
  /\ NodeFrame

NextNode ==
  \/ \E t \in 1..NodeThreads, op \in LockedOps : NodeCall(t, op)
  \/ \E t \in 1..NodeThreads : NodeLock(t)
  \/ \E t \in 1..NodeThreads : NodeReturn(t)
  \/ \E t \in 1..NodeThreads, toP \in NodeNames, f \in BOOLEAN,
        c \in BOOLEAN, ok \in BOOLEAN : SetNameCall(t, toP, f, c, ok)
  \/ \E t \in 1..NodeThreads : SetNameReturn(t)

SpecNode == InitNode /\ [][NextNode]_vars

\* the threads that are inside the body of an operation of the node
InBody == {t \in 1..NodeThreads : thr[t].pc \in {"body", "setName"}}

\* C22: for one FileNode no two of open, read, write, truncate, getAttr,
\* getSize, sync and setName are in their bodies at the same time in
\* different threads, and while a read or write is in progress the node's
\* names and file name are the ones it had when the read or write began.
C22_NodeMutualExclusion ==
  /\ Cardinality(InBody) <= 1
  /\ \A t \in 1..NodeThreads :
       (thr[t].pc = "body" /\ thr[t].op \in {"read", "write"}) =>
         /\ reg.pname = thr[t].pname
         /\ reg.cname = thr[t].cname

----------------------------------------------------------------------------
(* FileNode::setName on its own: one node, renamed again and again in both *)
(* directions.                                                             *)

SetNameFrame == UNCHANGED <<thr, cfg, io, nops, grown, ren, nm>>

\* the state after setName returned sn
SetNameDone(sn, toP, toC, setIVFirst, chain, ivOK) ==
  /\ reg' = sn.nd
  /\ last' = [op |-> "setName", toP |-> toP, toC |-> toC,
              ivFirst |-> setIVFirst, chain |-> chain, ivOK |-> ivOK,
              ok |-> sn.ok, pre |-> reg]

\* setName(toP, toC, iv, setIVFirst) on a mount with or without external IV
\* chaining; ivOK: setIV(io, iv) succeeds
SetName(toP, toC, setIVFirst, chain, ivOK) ==
  /\ SetNameDone(setName(reg, toP, toC, ivOK, setIVFirst, chain),
                 toP, toC, setIVFirst, chain, ivOK)
  /\ SetNameFrame

NextSetName ==
  \E toP \in NodeNames, toC \in NodeNames, f \in BOOLEAN, c \in BOOLEAN,
     ok \in BOOLEAN : SetName(toP, toC, f, c, ok)

InitSetName == IOIdle /\ RenIdle /\ NmIdle /\ ThrIdle /\ reg = NodeIdle

SpecSetName == InitSetName /\ [][NextSetName]_vars

\* C35: in both directions (setIVFirst true or false), external IV chaining
\* on or off, setName returns true only if the node has the requested
\* plaintext and ciphertext names and the IV change succeeded; when the IV
\* change fails it returns false and the node has the names from before the
\* call.
C35_SetNameAllOrNothing ==
  (last.op = "setName") =>
    /\ last.ok =>
         /\ reg.pname = last.toP /\ reg.cname = last.toC
         /\ last.chain => last.ivOK
    /\ (last.chain /\ ~last.ivOK) =>
         /\ ~last.ok
         /\ reg.pname = last.pre.pname /\ reg.cname = last.pre.cname

----------------------------------------------------------------------------
(* The mutexes of a mount and the order its threads take them in           *)
(* (DirNode.cpp, Context.cpp, FileNode.cpp, MemoryPool.cpp,                *)
(* SSL_Cipher.cpp). "dir" is the DirNode mutex, "ctx" contextMutex, "node" *)
(* the mutex of one FileNode, "key" the cipher key's, "pool" gMPoolMutex.  *)

LockThreads == 2    \* threads inside the mount

LockNames == {"dir", "ctx", "node", "key", "pool"}

\* ctx->lookupNode, ctx->renameNode, ctx->putNode, ctx->eraseNode: the
\* context mutex for the length of the call
CtxCall == <<<<"acq", "ctx">>, <<"rel", "ctx">>>>

\* MemoryPool::allocate and MemoryPool::release
PoolCall == <<<<"acq", "pool">>, <<"rel", "pool">>>>

\* _checksum_64 (MAC_64, MAC_16)
KeyCall == <<<<"acq", "key">>, <<"rel", "key">>>>

\* the same operations with the registry asked from inside FileNode::read
LockScriptCtxInside(op) ==
  IF op = "read"
  THEN <<<<"acq", "node">>>> \o CtxCall \o <<<<"rel", "node">>>>
  ELSE CtxCall

\* the mutexes an operation takes and gives back, in the order of its code:
\*   lookupNode  DirNode::lookupNode: Lock, findOrCreate (ctx->lookupNode)
\*   openNode    DirNode::openNode: Lock, findOrCreate, node->open
\*   rename      DirNode::rename: Lock, findOrCreate(to), renameNode
\*               (findOrCreate(from), setName with no lock, ctx->renameNode)
\*   link        DirNode::link: Lock
\*   unlink      DirNode::unlink: Lock, ctx->lookupNode
\*   read        FileNode::read over MACFileIO::readOneBlock: Lock, scratch
\*               block allocated, MAC computed, block released
\*   write       FileNode::write over MACFileIO::writeOneBlock
\*   putNode, eraseNode  the registry called from the adapter
\*   allocate    MemoryPool::allocate, release called outside a node
\*   tick        usageAndUnmount on the path that unmounts: Lock,
\*               lock.~Lock(), unmountFS, and the Lock's destructor once
\*               more when the function returns
\*   tickIdle    usageAndUnmount returning false: Lock to the scope's end
\*   getRoot     getRoot with no root: Lock in the inner block, remountFS,
\*               and the block once more
LockScript(op) ==
  IF op = "lookupNode"
  THEN <<<<"acq", "dir">>>> \o CtxCall \o <<<<"rel", "dir">>>>
  ELSE IF op = "openNode"
  THEN <<<<"acq", "dir">>>> \o CtxCall
         \o <<<<"acq", "node">>, <<"rel", "node">>, <<"rel", "dir">>>>
  ELSE IF op = "rename"
  THEN <<<<"acq", "dir">>>> \o CtxCall \o CtxCall \o CtxCall
         \o <<<<"rel", "dir">>>>
  ELSE IF op = "link"
  THEN <<<<"acq", "dir">>, <<"rel", "dir">>>>
  ELSE IF op = "unlink"
  THEN <<<<"acq", "dir">>>> \o CtxCall \o <<<<"rel", "dir">>>>
  ELSE IF op \in {"read", "write"}
  THEN <<<<"acq", "node">>>> \o PoolCall \o KeyCall \o PoolCall
         \o <<<<"rel", "node">>>>
  ELSE IF op = "allocate"
  THEN PoolCall
  ELSE IF op = "tick"
  THEN CtxCall \o <<<<"callback", "ctx">>, <<"rel", "ctx">>>>
  ELSE IF op = "getRoot"
  THEN CtxCall \o <<<<"callback", "ctx">>>> \o CtxCall
  ELSE CtxCall

LockOps ==
  {"lookupNode", "openNode", "rename", "link", "unlink", "read", "write",
   "putNode", "eraseNode", "allocate", "tick", "tickIdle", "getRoot"}

\* a thread outside the mount
NoCall == [op |-> "none", pc |-> 0, held |-> <<>>, unheld |-> 0]

\* the step the thread is at
StepOf(t) == LockScript(thr[t].op)[thr[t].pc]

AtStep(t, kind) ==
  /\ thr[t].op # "none"
  /\ thr[t].pc <= Len(LockScript(thr[t].op))
  /\ StepOf(t)[1] = kind

RECURSIVE Without(_, _)
Without(s, x) ==
  IF s = <<>> THEN <<>>
  ELSE IF Head(s) = x THEN Tail(s) ELSE <<Head(s)>> \o Without(Tail(s), x)

InitLocks ==
  /\ IOIdle /\ RenIdle /\ NmIdle
  /\ reg = [l \in LockNames |-> NoThread]
  /\ thr = [t \in 1..LockThreads |-> NoCall]

LocksFrame == UNCHANGED <<cfg, io, last, nops, grown, ren, nm>>

\* a thread enters an operation
LockCall(t, op) ==
  /\ thr[t].op = "none"
  /\ thr' = [thr EXCEPT ![t] = [NoCall EXCEPT !.op = op, !.pc = 1]]
  /\ UNCHANGED reg
  /\ LocksFrame

\* pthread_mutex_lock returns
LockAcquire(t) ==
  /\ AtStep(t, "acq")
  /\ reg[StepOf(t)[2]] = NoThread
  /\ reg' = [reg EXCEPT ![StepOf(t)[2]] = t]
  /\ thr' = [thr EXCEPT ![t].pc = @ + 1,
                        ![t].held = Append(@, StepOf(t)[2])]
  /\ LocksFrame

\* pthread_mutex_unlock by the thread that locked
LockRelease(t) ==
  /\ AtStep(t, "rel")
  /\ StepOf(t)[2] \in Range(thr[t].held)
  /\ reg' = [reg EXCEPT ![StepOf(t)[2]] = NoThread]
  /\ thr' = [thr EXCEPT ![t].pc = @ + 1,
                        ![t].held = Without(@, StepOf(t)[2])]
  /\ LocksFrame

\* unmountFS(this) or remountFS(this) runs
LockCallback(t) ==
  /\ AtStep(t, "callback")
  /\ thr' = [thr EXCEPT ![t].pc = @ + 1]
  /\ UNCHANGED reg
  /\ LocksFrame

\* pthread_mutex_unlock on a mutex the thread no longer holds (the Lock is
\* destroyed a second time): undefined, it is ignored or it frees the mutex
\* under whoever holds it; unheld counts these
LockReleaseAgain(t, freed) ==
  /\ AtStep(t, "rel")
  /\ StepOf(t)[2] \notin Range(thr[t].held)
  /\ reg' = IF freed THEN [reg EXCEPT ![StepOf(t)[2]] = NoThread] ELSE reg
  /\ thr' = [thr EXCEPT ![t].pc = @ + 1, ![t].unheld = @ + 1]
  /\ LocksFrame

\* the operation returns
LockReturn(t) ==
  /\ thr[t].op # "none"
  /\ thr[t].pc > Len(LockScript(thr[t].op))
  /\ thr' = [thr EXCEPT ![t] = NoCall]
  /\ UNCHANGED reg
  /\ LocksFrame

NextLocks ==
  \/ \E t \in 1..LockThreads, op \in LockOps : LockCall(t, op)
  \/ \E t \in 1..LockThreads : LockAcquire(t)
  \/ \E t \in 1..LockThreads : LockRelease(t)
  \/ \E t \in 1..LockThreads : LockCallback(t)
  \/ \E t \in 1..LockThreads, freed \in BOOLEAN : LockReleaseAgain(t, freed)
  \/ \E t \in 1..LockThreads : LockReturn(t)

SpecLocks == InitLocks /\ [][NextLocks]_vars

\* thread t has taken mutex a and, still holding it, mutex b
TookUnder(t, a, b) ==
  \E i \in 1..Len(thr[t].held), k \in 1..Len(thr[t].held) :
    i < k /\ thr[t].held[i] = a /\ thr[t].held[k] = b

\* thread t is blocked in pthread_mutex_lock on a mutex thread u holds
WaitsFor(t, u) ==
  AtStep(t, "acq") /\ reg[StepOf(t)[2]] = u

\* C23: in every interleaving of registry, directory, file-node and pool
\* operations no thread takes the context mutex while it holds a file-node
\* mutex or the pool mutex, none takes a file-node mutex while it holds the
\* pool mutex, and no set of threads wait on each other's mutexes in a
\* cycle.
C23_LockOrder ==
  /\ \A t \in 1..LockThreads :
       /\ ~TookUnder(t, "node", "ctx")
       /\ ~TookUnder(t, "pool", "ctx")
       /\ ~TookUnder(t, "pool", "node")
  /\ \A S \in (SUBSET (1..LockThreads)) \ {{}} :
       \E t \in S : \A u \in S : ~WaitsFor(t, u)

\* a thread inside openNode holds the directory and the node mutex while
\* another one, about to read the node, waits for the node mutex
C23_Witness ==
  \E t \in 1..LockThreads, u \in 1..LockThreads :
    /\ thr[t].held = <<"dir", "node">>
    /\ thr[u].op = "read" /\ WaitsFor(u, t)

\* C24: the unmount routine called from usageAndUnmount and the remount
\* routine called from getRoot are entered only after the calling thread
\* has released the context mutex, and no call unlocks the context mutex
\* a second time: every unlock is of a mutex the thread holds.
C24_CallbackOutsideLock ==
  \A t \in 1..LockThreads :
    /\ AtStep(t, "callback") => "ctx" \notin Range(thr[t].held)
    /\ thr[t].unheld = 0

----------------------------------------------------------------------------
(* The scratch memory pool used by several threads (MemoryPool.cpp):       *)
(* gMemPool under gMPoolMutex.                                             *)

PoolThreads == 2    \* threads that take and give back scratch blocks
MaxBlocks == 3      \* blocks allocBlock creates per run

PoolSizes == {1, BlockSize}

\* gMemPool empty, gMPoolMutex free; made counts the blocks created
PoolIdle == [pool |-> <<>>, crash |-> FALSE, lock |-> NoThread, made |-> 0]

\* a thread that holds no block
NoHold == [pc |-> "idle", size |-> 0, mb |-> NoBlock, id |-> 0]

\* the block MemoryPool::allocate returns and the list it leaves: blocks of
\* the list carry the id they were created with, a new one gets the next
Allocated(r, size) ==
  IF FirstFit(r.pool, size, 1) = 0
  THEN [s |-> [r EXCEPT !.made = @ + 1],
        mb |-> allocBlock(size), id |-> r.made + 1]
  ELSE [s |-> PoolAllocate(r, size).s,
        mb |-> PoolAllocate(r, size).mb.mb,
        id |-> PoolAllocate(r, size).mb.id]

\* the list MemoryPool::release leaves: the block zeroed and pushed, or the
\* process dead in memset
Released(r, mb, id) ==
  IF PoolRelease(r, mb).crash
  THEN PoolRelease(r, mb)
  ELSE [r EXCEPT !.pool = <<[mb |-> Head(PoolRelease(r, mb).pool), id |-> id,
                            size |-> mb.size]>> \o r.pool]

InitPool ==
  /\ IOIdle /\ RenIdle /\ NmIdle
  /\ reg = PoolIdle
  /\ thr = [t \in 1..PoolThreads |-> NoHold]

PoolFrame == UNCHANGED <<cfg, io, last, nops, grown, ren, nm>>

\* a thread calls MemoryPool::allocate(size)
CallAllocate(t, size) ==
  /\ ~reg.crash
  /\ thr[t].pc = "idle"
  /\ reg.made + Cardinality({u \in 1..PoolThreads : thr[u].pc = "lockA"})
       < MaxBlocks
  /\ thr' = [thr EXCEPT ![t].pc = "lockA", ![t].size = size]
  /\ UNCHANGED reg
  /\ PoolFrame

\* a thread that holds a block calls MemoryPool::release(mb)
CallRelease(t) ==
  /\ ~reg.crash
  /\ thr[t].pc = "holding"
  /\ thr' = [thr EXCEPT ![t].pc = "lockR"]
  /\ UNCHANGED reg
  /\ PoolFrame

\* pthread_mutex_lock(&gMPoolMutex) returns
PoolLock(t) ==
  /\ ~reg.crash
  /\ thr[t].pc \in {"lockA", "lockR"}
  /\ reg.lock = NoThread
  /\ reg' = [reg EXCEPT !.lock = t]
  /\ thr' = [thr EXCEPT ![t].pc = IF @ = "lockA" THEN "allocate" ELSE "release"]
  /\ PoolFrame

\* allocate, lines 49-77: the list is searched and the block unlinked under
\* the mutex, the mutex is given back, a missing block is created
AllocateBody(t) ==
  /\ ~reg.crash
  /\ thr[t].pc = "allocate"
  /\ reg' = [Allocated(reg, thr[t].size).s EXCEPT !.lock = NoThread]
  /\ thr' = [thr EXCEPT ![t].pc = "holding",
                        ![t].mb = Allocated(reg, thr[t].size).mb,
                        ![t].id = Allocated(reg, thr[t].size).id]
  /\ PoolFrame

\* release, lines 82-91: memset, push, unlock
ReleaseBody(t) ==
  /\ ~reg.crash
  /\ thr[t].pc = "release"
  /\ reg' = [Released(reg, thr[t].mb, thr[t].id) EXCEPT !.lock = NoThread]
  /\ thr' = [thr EXCEPT ![t] = NoHold]
  /\ PoolFrame

NextPool ==
  \/ \E t \in 1..PoolThreads, size \in PoolSizes : CallAllocate(t, size)
  \/ \E t \in 1..PoolThreads : CallRelease(t)
  \/ \E t \in 1..PoolThreads : PoolLock(t)
  \/ \E t \in 1..PoolThreads : AllocateBody(t)
  \/ \E t \in 1..PoolThreads : ReleaseBody(t)

SpecPool == InitPool /\ [][NextPool]_vars

\* the threads that hold a block
Holders == {t \in 1..PoolThreads : thr[t].pc \in {"holding", "lockR", "release"}}

----------------------------------------------------------------------------
(* The configuration serializer (ConfigVar.cpp, ConfigReader.cpp). An int  *)
(* is kept as its 32 bits in two parts, hi the top 4 bits and lo the low   *)
(* 28, so that every value of the width can be written down.               *)

TmpBufSize == 32

Int32(n) == [hi |-> 0, lo |-> n]

\* a ConfigVar: pd->buffer, pd->offset
NewVar(buf) == [buffer |-> buf, offset |-> 0]

\* ConfigVar::write(data, bytes): append at the end, insert elsewhere
CVWrite(cv, data) ==
  IF Len(cv.buffer) = cv.offset
  THEN [buffer |-> cv.buffer \o data, offset |-> cv.offset + Len(data)]
  ELSE [buffer |-> SubSeq(cv.buffer, 1, cv.offset) \o data
                     \o SubSeq(cv.buffer, cv.offset + 1, Len(cv.buffer)),
        offset |-> cv.offset + Len(data)]

\* ConfigVar::read(buffer_, bytes): [cv, n, data]
CVCopied(cv, toCopy) ==
  [cv |-> [cv EXCEPT !.offset = @ + toCopy], n |-> toCopy,
   data |-> IF toCopy > 0
            THEN SubSeq(cv.buffer, cv.offset + 1, cv.offset + toCopy)
            ELSE <<>>]

CVRead(cv, bytes) == CVCopied(cv, Min(bytes, Len(cv.buffer) - cv.offset))

\* digit[0..4] of writeInt
Digits(v) ==
  <<128 + v.hi,
    128 + ((v.lo \div 2097152) % 128),
    128 + ((v.lo \div 16384) % 128),
    128 + ((v.lo \div 128) % 128),
    v.lo % 128>>

\* "while (digit[start] == 0x80) ++start"
RECURSIVE SkipLead(_, _)
SkipLead(digit, start) ==
  IF digit[start] = 128 THEN SkipLead(digit, start + 1) ELSE start

\* writeInt without the search for the first digit that is not 0x80
IntBytesUnstripped(v) == Digits(v)

\* the bytes writeInt hands to write
IntBytes(v) == SubSeq(Digits(v), SkipLead(Digits(v), 1), 5)

\* ConfigVar::writeInt(val)
writeInt(cv, v) == CVWrite(cv, IntBytes(v))

\* ConfigVar::writeString(data, bytes)
writeString(cv, str) == CVWrite(writeInt(cv, Int32(Len(str))), str)

\* "value = (value << 7) | (tmp & 0x7f)" in 32 bits
ShiftIn(value, g) ==
  [hi |-> (value.hi * 128 + (value.lo \div 2097152)) % 16,
   lo |-> (value.lo % 2097152) * 128 + g]

\* the do-while of readInt: [offset, value]
RECURSIVE ReadIntLoop(_, _, _)
ReadIntLoop(buf, offset, value) ==
  IF buf[offset + 1] >= 128 /\ offset + 1 < Len(buf)
  THEN ReadIntLoop(buf, offset + 1, ShiftIn(value, buf[offset + 1] % 128))
  ELSE [offset |-> offset + 1, value |-> ShiftIn(value, buf[offset + 1] % 128)]

\* readInt after the loop: the offset is stored, then "rAssert(value >= 0)".
\* A negative value comes from a shift that overflowed the int, which is
\* undefined: the test fires (checked) or was compiled away
ReadIntDone(cv, l, checked) ==
  IF l.value.hi >= 8 /\ checked
  THEN [cv |-> [cv EXCEPT !.offset = l.offset], res |-> "assert",
        value |-> l.value]
  ELSE [cv |-> [cv EXCEPT !.offset = l.offset], res |-> "ok",
        value |-> l.value]

\* ConfigVar::readInt(): [cv, res, value]
readInt(cv, checked) ==
  IF ~(cv.offset < Len(cv.buffer))
  THEN [cv |-> cv, res |-> "assert", value |-> Int32(0)]
  ELSE ReadIntDone(cv, ReadIntLoop(cv.buffer, cv.offset, Int32(0)), checked)

\* an int as a length: more than any buffer holds when the top bits are set
AsLength(v) == IF v.hi = 0 THEN v.lo ELSE 268435456

\* operator>>(ConfigVar, string) once the bytes are read: a length over
\* sizeof(tmpBuf) reads into a heap block that is deleted and leaves result
\* as it was, a shorter one assigns length bytes of tmpBuf
StringAssigned(rd, length, prior) ==
  [cv |-> rd.cv,
   res |-> IF rd.n = length THEN "ok" ELSE "assert",
   str |-> IF length > TmpBufSize THEN prior
           ELSE rd.data \o Zeros(length - rd.n)]

StringRead(r, prior) ==
  IF r.res # "ok"
  THEN [cv |-> r.cv, res |-> "assert", str |-> prior]
  ELSE StringAssigned(CVRead(r.cv, AsLength(r.value)), AsLength(r.value), prior)

\* operator>>(const ConfigVar& src, std::string& result): [cv, res, str]
readString(cv, prior, checked) == StringRead(readInt(cv, checked), prior)

\* ConfigReader::toVar over vars, kept as a list of <<key, value buffer>> in key
\* order
RECURSIVE ToVarEntries(_, _, _)
ToVarEntries(out, entries, i) ==
  IF i > Len(entries) THEN out
  ELSE ToVarEntries(
         CVWrite(writeInt(CVWrite(writeInt(out, Int32(Len(entries[i][1]))),
                                  entries[i][1]),
                          Int32(Len(entries[i][2]))),
                 entries[i][2]),
         entries, i + 1)

toVar(entries) == ToVarEntries(writeInt(NewVar(<<>>), Int32(Len(entries))), entries, 1)

\* vars.insert(make_pair(key, newVar)): a key already there keeps its value
VarsInsert(entries, key, value) ==
  IF \E k \in 1..Len(entries) : entries[k][1] = key THEN entries
  ELSE Append(entries, <<key, value>>)

\* the loop of loadFromVar: [ok, entries]
RECURSIVE LoadEntries(_, _, _, _)
LoadValue(k, val, n, entries, checked) ==
  IF val.res # "ok" THEN [ok |-> "throws", vars |-> entries]
  ELSE IF Len(k.str) = 0 THEN [ok |-> "false", vars |-> entries]
  ELSE LoadEntries(val.cv, n - 1, VarsInsert(entries, k.str, val.str), checked)

LoadKey(k, n, entries, checked) ==
  IF k.res # "ok" THEN [ok |-> "throws", vars |-> entries]
  ELSE LoadValue(k, readString(k.cv, <<>>, checked), n, entries, checked)

LoadEntries(cv, n, entries, checked) ==
  IF n = 0 THEN [ok |-> "true", vars |-> entries]
  ELSE LoadKey(readString(cv, <<>>, checked), n, entries, checked)

LoadCounted(r, checked) ==
  IF r.res # "ok" THEN [ok |-> "throws", vars |-> <<>>]
  ELSE LoadEntries(r.cv, AsLength(r.value), <<>>, checked)

\* ConfigReader::loadFromVar(in) on a reader with no entries
loadFromVar(in, checked) ==
  LoadCounted(readInt([in EXCEPT !.offset = 0], checked), checked)

MaxItems == 2       \* ints and strings written to one ConfigVar

\* ints over the whole width: the ends of each encoded length, groups of
\* zero bits in the middle, the sign bit
IntSamples ==
  {[hi |-> h, lo |-> l] :
     h \in {0}, l \in {0, 1, 127, 128, 16383, 16384, 2097151, 2097152,
                       268435455, 4194304}}
  \cup {[hi |-> 1, lo |-> 0], [hi |-> 7, lo |-> 268435455],
        [hi |-> 8, lo |-> 0], [hi |-> 15, lo |-> 268435455]}

\* a string of n bytes
Str(n, first) == [i \in 1..n |-> (first + 7 * i) % 256]

\* strings up to and over the size of tmpBuf
StringSamples ==
  {Str(0, 0), Str(1, 65), Str(TmpBufSize, 65), Str(TmpBufSize + 1, 65)}

\* maps of non-empty keys to values, as lists in key order
MapSamples ==
  {<<>>,
   <<<<Str(1, 65), Str(0, 0)>>>>,
   <<<<Str(1, 65), Str(2, 1)>>, <<Str(2, 70), Str(TmpBufSize, 3)>>>>,
   <<<<Str(1, 65), Str(TmpBufSize + 1, 9)>>>>,
   <<<<Str(TmpBufSize + 1, 65), Str(1, 9)>>>>}

\* a ConfigVar nothing was written to; items: what was written, got: what
\* was read back, map / loaded: the map serialized and the one loaded
ConfigIdle ==
  [cv |-> NewVar(<<>>), phase |-> "write", items |-> <<>>, got |-> <<>>,
   map |-> <<>>, loaded |-> [ok |-> "none", vars |-> <<>>]]

InitConfig ==
  /\ IOIdle /\ RenIdle /\ NmIdle /\ ThrIdle
  /\ reg = ConfigIdle

ConfigFrame == UNCHANGED <<thr, cfg, io, last, nops, grown, ren, nm>>

\* out << v
WriteInt(v) ==
  /\ reg.phase = "write" /\ Len(reg.items) < MaxItems
  /\ reg' = [reg EXCEPT !.cv = writeInt(reg.cv, v),
                        !.items = Append(@, [kind |-> "int", v |-> v,
                                             bytes |-> IntBytes(v)])]
  /\ ConfigFrame

\* out << str
WriteString(str) ==
  /\ reg.phase = "write" /\ Len(reg.items) < MaxItems
  /\ reg' = [reg EXCEPT !.cv = writeString(reg.cv, str),
                        !.items = Append(@, [kind |-> "string", v |-> str,
                                             bytes |-> <<>>])]
  /\ ConfigFrame

\* resetOffset()
ResetOffset ==
  /\ reg.phase = "write" /\ reg.items # <<>>
  /\ reg' = [reg EXCEPT !.cv.offset = 0, !.phase = "read"]
  /\ ConfigFrame

NextItem == reg.items[Len(reg.got) + 1]

GotInt(r) ==
  reg' = [reg EXCEPT !.cv = r.cv,
                     !.phase = IF r.res = "ok" THEN "read" ELSE "thrown",
                     !.got = Append(@, [res |-> r.res, v |-> r.value,
                                        used |-> r.cv.offset - reg.cv.offset])]

\* in >> v for an int that was written
ReadInt(checked) ==
  /\ reg.phase = "read" /\ Len(reg.got) < Len(reg.items)
  /\ NextItem.kind = "int"
  /\ GotInt(readInt(reg.cv, checked))
  /\ ConfigFrame

GotString(r) ==
  reg' = [reg EXCEPT !.cv = r.cv,
                     !.phase = IF r.res = "ok" THEN "read" ELSE "thrown",
                     !.got = Append(@, [res |-> r.res, v |-> r.str,
                                        used |-> r.cv.offset - reg.cv.offset])]

\* in >> str, str empty before, for a string that was written
ReadString ==
  /\ reg.phase = "read" /\ Len(reg.got) < Len(reg.items)
  /\ NextItem.kind = "string"
  /\ GotString(readString(reg.cv, <<>>, TRUE))
  /\ ConfigFrame

\* ConfigReader::toVar on a reader holding map
ToVar(map) ==
  /\ reg.phase = "write" /\ reg.items = <<>>
  /\ reg' = [reg EXCEPT !.cv = toVar(map), !.map = map, !.phase = "saved"]
  /\ ConfigFrame

\* ConfigReader::loadFromVar on a new reader
LoadFromVar ==
  /\ reg.phase = "saved"
  /\ reg' = [reg EXCEPT !.loaded = loadFromVar(reg.cv, TRUE),
                        !.phase = "loaded"]
  /\ ConfigFrame

NextConfig ==
  \/ \E v \in IntSamples : WriteInt(v)
  \/ \E str \in StringSamples : WriteString(str)
  \/ ResetOffset
  \/ \E checked \in BOOLEAN : ReadInt(checked)
  \/ ReadString
  \/ \E map \in MapSamples : ToVar(map)
  \/ LoadFromVar

SpecConfig == InitConfig /\ [][NextConfig]_vars

\* the bytes of an encoded int: one to five, every byte but the last with
\* its high bit set, the last with it clear, no leading 0x80
WellFormed(b) ==
  /\ Len(b) \in 1..5
  /\ \A i \in 1..(Len(b) - 1) : b[i] >= 128
  /\ b[Len(b)] < 128
  /\ b[1] # 128

IntItems == {i \in 1..Len(reg.items) : reg.items[i].kind = "int"}

\* C26: for every 32-bit value v, writeInt(v) emits 1 to 5 bytes, high
\* group first, every byte but the last with its high bit set and the last
\* with it clear, with no leading 0x80, and readInt on those bytes returns v
\* and advances the offset by the number of bytes written.
C26_VarIntRoundTrip ==
  \A i \in IntItems :
    /\ WellFormed(reg.items[i].bytes)
    /\ i <= Len(reg.got) =>
         /\ reg.got[i].res = "ok"
         /\ reg.got[i].v = reg.items[i].v
         /\ reg.got[i].used = Len(reg.items[i].bytes)

\* C26 as the code has it: the bytes are well formed for every 32-bit
\* value; readInt returns v and advances by the bytes written for v below
\* 2^31; for v from 2^31 up the value read is negative as an int and
\* readInt, having advanced the offset, fails its assertion (or, the
\* overflow being undefined, returns the same 32 bits).
C26_VarIntRoundTripSigned ==
  \A i \in IntItems :
    /\ WellFormed(reg.items[i].bytes)
    /\ i <= Len(reg.got) =>
         /\ reg.got[i].used = Len(reg.items[i].bytes)
         /\ reg.got[i].v = reg.items[i].v
         /\ reg.items[i].v.hi < 8 => reg.got[i].res = "ok"
         /\ reg.got[i].res # "ok" => reg.items[i].v.hi >= 8

\* 2^31 - 1 was written in five bytes and read back, and 2^31 after it made
\* readInt fail
C26_Witness ==
  /\ Len(reg.got) = 2 /\ IntItems = {1, 2}
  /\ reg.items[1].v = [hi |-> 7, lo |-> 268435455]
  /\ Len(reg.items[1].bytes) = 5 /\ reg.got[1].res = "ok"
  /\ reg.items[2].v = [hi |-> 8, lo |-> 0]
  /\ reg.got[2].res = "assert"

\* C27: for every map of non-empty keys to values of any length,
\* loadFromVar on the output of toVar succeeds and yields the same keys
\* with the same value bytes; a string written by writeString and read back
\* by operator>> is returned unchanged for every length.
C27_ConfigRoundTrip ==
  /\ reg.phase = "loaded" =>
       reg.loaded.ok = "true" /\ reg.loaded.vars = reg.map
  /\ \A i \in 1..Len(reg.got) :
       reg.items[i].kind = "string" =>
         reg.got[i].res = "ok" /\ reg.got[i].v = reg.items[i].v

----------------------------------------------------------------------------
(* The calls the block engine makes to readOneBlock and writeOneBlock,     *)
(* over requests of any length, the empty write included.                  *)

AlignOps == 2       \* requests served per run

AlignWrite(off, len, f) == nops < AlignOps /\ Write(off, len, f)
AlignRead(off, len, g) == nops < AlignOps /\ Read(off, len, g)
AlignTruncate(size, f, g) == nops < AlignOps /\ Truncate(size, f, g)

NextAlign ==
  \/ \E off \in 0..MaxSize, len \in 0..MaxLen, f \in 0..MaxFault :
       AlignWrite(off, len, f)
  \/ \E off \in 0..MaxSize, len \in 1..MaxLen : AlignRead(off, len, 0)
  \/ \E size \in 0..MaxSize, f \in 0..MaxFault : AlignTruncate(size, f, 0)

SpecAlign == InitBlock /\ [][NextAlign]_vars

\* the calls of the last request to readOneBlock and writeOneBlock
BlockCalls == {i \in 1..Len(io.log) : io.log[i][1] \in {"r", "w"}}

\* C28: in every execution of read, write, padFile and truncateBase each
\* call to readOneBlock or writeOneBlock has an offset that is a multiple of
\* B and a length of at most B, and writeOneBlock is never called with
\* length 0.
C28_AlignedCalls ==
  \A i \in BlockCalls :
    /\ io.log[i][2] % B = 0
    /\ io.log[i][3] <= B
    /\ io.log[i][1] = "w" => io.log[i][3] > 0

\* C28 as the code has it: offsets are multiples of B and lengths at most
\* B in every call; writeOneBlock gets length 0 only from a write request
\* of no bytes at a block-aligned end of file, which write hands on as it
\* is.
C28_AlignedCallsNonEmpty ==
  \A i \in BlockCalls :
    /\ io.log[i][2] % B = 0
    /\ io.log[i][3] <= B
    /\ (io.log[i][1] = "w" /\ io.log[i][3] = 0) =>
         /\ last.op = "write" /\ last.len = 0
         /\ last.off = Len(last.pre) /\ last.off % B = 0
         /\ Len(io.log) = 1

\* a write of more than one block went down as a whole block and a tail
C28_Witness ==
  /\ last.op = "write" /\ last.len > B /\ last.res = last.len
  /\ io.log = <<<<"w", last.off, B>>, <<"w", last.off + B, last.len - B>>>>

----------------------------------------------------------------------------
(* padFile called with the size the file already has.                      *)

\* the state after padFile(S, S, forceWrite) returned r (last.off is S,
\* last.follows is forceWrite)
PadOutcome(r, force) ==
  /\ io' = Settled(r.s)
  /\ last' = [op |-> "padFile", off |-> GetSize(io), len |-> 0, res |-> r.res,
              out |-> <<>>, pre |-> Content(io), fault |-> FALSE,
              follows |-> force, pre2 |-> <<>>, preBack |-> BaseSize(io),
              clean |-> CleanSoFar]

\* padFile(S, S, forceWrite), S being the size of the file
PadEqual(force) ==
  /\ (~io.crash) /\ nops < AlignOps
  /\ PadOutcome(padFile(Armed(0, 0), GetSize(io), GetSize(io), force), force)
  /\ nops' = nops + 1
  /\ grown' = NoGrown
  /\ UNCHANGED <<thr, cfg, reg, ren, nm>>

NextPad ==
  \/ \E force \in BOOLEAN : PadEqual(force)
  \/ \E off \in 0..MaxSize, len \in 1..MaxLen : AlignWrite(off, len, 0)

SpecPad == InitBlock /\ [][NextPad]_vars

\* C33: padFile(S, S, forceWrite) returns 0 and leaves the size and the
\* logical content of the file unchanged, for every size S, aligned or not,
\* and both values of forceWrite.
C33_PadEqualNoOp ==
  (last.op = "padFile") =>
    /\ ~io.crash
    /\ last.res = 0
    /\ GetSize(io) = Len(last.pre)
    /\ Content(io) = last.pre

----------------------------------------------------------------------------
(* RawFileIO (RawFileIO.cpp): the descriptors of one object and its cached  *)
(* size.  The object is io; the backing file is seen through its size and   *)
(* the table of descriptors the system handed out.                          *)

MaxRawSize == 3     \* largest backing file explored
MaxFds == 3         \* descriptors the system hands out

\* RawFileIO::RawFileIO(fileName) on a backing file of the given size
NewRawFileIO(size) ==
  [knownSize |-> FALSE, fileSize |-> 0, fd |-> -1, oldfd |-> -1,
   canWrite |-> FALSE, alive |-> TRUE, size |-> size, fds |-> <<>>]

\* what ::open and the read-only workaround can do: open at once, open after
\* EACCES through the workaround, fail there too, fail otherwise
OpenOutcomes == {"ok", "workaround", "eacces", "error"}

\* the descriptor table after ::open(name, finalFlags) succeeded; descriptor
\* d is entry d + 1
Opened(fds, requestWrite) ==
  Append(fds, [mode |-> IF requestWrite THEN "rw" ELSE "ro", closes |-> 0])

\* RawFileIO::open that takes the early return for read requests only
RawFileOpenAgain(s, requestWrite, sys) ==
  IF s.fd >= 0 /\ ~requestWrite THEN [s |-> s, res |-> s.fd]
  ELSE IF sys = "eacces" THEN [s |-> s, res |-> -EACCES]
  ELSE IF sys = "error" THEN [s |-> s, res |-> -EIO]
  ELSE [s |-> [s EXCEPT !.canWrite = requestWrite, !.oldfd = s.fd,
                        !.fd = Len(s.fds),
                        !.fds = Opened(@, requestWrite)],
        res |-> Len(s.fds)]

\* RawFileIO::open(flags), requestWrite being O_RDWR or O_WRONLY in flags;
\* the errno of a failure other than EACCES is shown as EIO
RawFileOpen(s, requestWrite, sys) ==
  IF s.fd >= 0 /\ (s.canWrite \/ ~requestWrite) THEN [s |-> s, res |-> s.fd]
  ELSE IF sys = "eacces" THEN [s |-> s, res |-> -EACCES]
  ELSE IF sys = "error" THEN [s |-> s, res |-> -EIO]
  ELSE [s |-> [s EXCEPT !.canWrite = requestWrite, !.oldfd = s.fd,
                        !.fd = Len(s.fds),
                        !.fds = Opened(@, requestWrite)],
        res |-> Len(s.fds)]

\* close(d)
CloseFd(fds, d) ==
  IF d = -1 THEN fds ELSE [fds EXCEPT ![d + 1].closes = @ + 1]

\* RawFileIO::~RawFileIO()
RawFileDestroy(s) ==
  [s EXCEPT !.fd = -1, !.oldfd = -1, !.alive = FALSE,
            !.fds = CloseFd(CloseFd(@, s.oldfd), s.fd)]

\* RawFileIO::getSize(); lstat fails when statFails
RawFileGetSize(s, statFails) ==
  IF s.knownSize THEN [s |-> s, res |-> s.fileSize]
  ELSE IF statFails THEN [s |-> s, res |-> -EIO]
  ELSE [s |-> [s EXCEPT !.fileSize = s.size, !.knownSize = TRUE],
        res |-> s.size]

\* what the successive ::pwrite calls of one write return: a count (cut to
\* the bytes asked for), 0, or -1; past the end of the script all is written
PwriteScripts ==
  {<<>>} \cup {<<a>> : a \in -1..1} \cup {<<1, a>> : a \in -1..1}

\* the backing file after ::pwrite stored n bytes at offset
Pwritten(s, offset, n) ==
  [s EXCEPT !.size = IF offset + n > @ THEN offset + n ELSE @]

RECURSIVE RawWriteLoop(_, _, _, _, _)

\* the loop body once ::pwrite returned writeSize
RawWriteStep(s, req, bytes, offset, script, writeSize) ==
  IF writeSize < 0
  THEN [s |-> [s EXCEPT !.knownSize = FALSE], res |-> -EIO]
  ELSE IF writeSize = 0 THEN [s |-> s, res |-> -EIO]
  ELSE RawWriteLoop(Pwritten(s, offset, writeSize), req, bytes - writeSize,
                    offset + writeSize, script)

\* while (bytes != 0), then the cached size follows the request
RawWriteLoop(s, req, bytes, offset, script) ==
  IF bytes = 0
  THEN [s |-> IF s.knownSize /\ req.offset + req.dataLen > s.fileSize
              THEN [s EXCEPT !.fileSize = req.offset + req.dataLen]
              ELSE s,
        res |-> req.dataLen]
  ELSE RawWriteStep(s, req, bytes, offset,
                    IF script = <<>> THEN <<>> ELSE Tail(script),
                    IF script = <<>> THEN bytes ELSE Min(Head(script), bytes))

\* RawFileIO::write(req), past its two assertions
RawFileWrite(s, req, script) ==
  RawWriteLoop(s, req, req.dataLen, req.offset, script)

\* RawFileIO::truncate(size); ::ftruncate or ::truncate fails when sysFails
RawFileTruncate(s, size, sysFails) ==
  IF sysFails THEN [s |-> [s EXCEPT !.knownSize = FALSE], res |-> -EIO]
  ELSE [s |-> [s EXCEPT !.size = size, !.fileSize = size, !.knownSize = TRUE],
        res |-> 0]

InitRaw ==
  /\ cfg = PlainCfg(FALSE, FALSE) /\ last = NoLast
  /\ nops = 0 /\ grown = NoGrown
  /\ RegIdle /\ RenIdle /\ NmIdle /\ ThrIdle
  /\ \E size \in 0..MaxRawSize : io = NewRawFileIO(size)

RawFrame == UNCHANGED <<thr, cfg, nops, grown, reg, ren, nm>>

\* a call returned x: the object moves on, the call is noted with the state
\* it found
RawCalled(op, x) ==
  /\ io' = x.s
  /\ last' = [op |-> op, pre |-> io, res |-> x.res]
  /\ RawFrame

OpenRaw(requestWrite, sys) ==
  /\ io.alive /\ Len(io.fds) < MaxFds
  /\ RawCalled("open", RawFileOpen(io, requestWrite, sys))

GetSizeRaw(statFails) ==
  /\ io.alive
  /\ RawCalled("getSize", RawFileGetSize(io, statFails))

WriteRaw(offset, len, script) ==
  /\ io.alive /\ io.fd >= 0 /\ io.canWrite
  /\ offset + len <= MaxRawSize
  /\ RawCalled("write",
               RawFileWrite(io, [offset |-> offset, dataLen |-> len], script))

TruncateRaw(size, sysFails) ==
  /\ io.alive
  /\ RawCalled("truncate", RawFileTruncate(io, size, sysFails))

DestroyRaw ==
  /\ io.alive
  /\ RawCalled("destroy", [s |-> RawFileDestroy(io), res |-> 0])

NextRaw ==
  \/ \E requestWrite \in BOOLEAN, sys \in OpenOutcomes :
       OpenRaw(requestWrite, sys)
  \/ \E statFails \in BOOLEAN : GetSizeRaw(statFails)
  \/ \E offset \in 0..MaxRawSize, len \in 0..2, script \in PwriteScripts :
       WriteRaw(offset, len, script)
  \/ \E size \in 0..MaxRawSize, sysFails \in BOOLEAN :
       TruncateRaw(size, sysFails)
  \/ DestroyRaw

SpecRaw == InitRaw /\ [][NextRaw]_vars

\* the descriptors opened and not closed
OpenFds(s) == {d \in 0..(Len(s.fds) - 1) : s.fds[d + 1].closes = 0}

\* what one open call may change
OpenKeeps(pre, post) ==
  /\ pre.canWrite => (post.canWrite /\ post.fds = pre.fds)
  /\ post.oldfd # pre.oldfd => pre.oldfd = -1

\* C38: over any sequence of open calls on one RawFileIO, canWrite implies
\* fd >= 0, canWrite never goes from true to false, a file open for writing
\* is never reopened, at most two descriptors are ever opened (a read-only
\* one, then a read-write one), oldfd is overwritten only while it is -1,
\* every descriptor opened is fd or oldfd, and the destructor closes them all
C38_DescriptorLifecycle ==
  /\ io.alive =>
       /\ io.canWrite => io.fd >= 0
       /\ OpenFds(io) = {io.fd, io.oldfd} \ {-1}
  /\ last.op = "open" => OpenKeeps(last.pre, io)
  /\ Len(io.fds) <= 2
  /\ Len(io.fds) = 2 => (io.fds[1].mode = "ro" /\ io.fds[2].mode = "rw")
  /\ ~io.alive => \A d \in 1..Len(io.fds) : io.fds[d].closes = 1

\* opened read-only, reopened for writing, and destroyed: both descriptors
\* are closed
C38_Witness ==
  /\ ~io.alive /\ Len(io.fds) = 2 /\ last.pre.canWrite
  /\ last.pre.oldfd = 0 /\ last.pre.fd = 1

\* C39: in every state reached by write and truncate calls on one RawFileIO,
\* failed and cut-short writes included, the cached fileSize is the size of
\* the backing file whenever knownSize is true, and getSize never returns a
\* stale size
C39_CachedSizeExact ==
  /\ (io.alive /\ io.knownSize) => io.fileSize = io.size
  /\ (last.op = "getSize" /\ last.res >= 0) => last.res = io.size

====
